---------------------------- MODULE Spec2Model ----------------------------
(***************************************************************************)
(* ATLAS: rubric-driven evaluation of content by a language-model judge.   *)
(*                                                                         *)
(* The module models the evaluation-aggregation pipeline of the repository:*)
(*   - the configuration pools held by ConfigManager,                      *)
(*   - LLMResponseParser (src/utils/llm_parser.py and the later variant    *)
(*     src/atlas/utils/llm_parser.py),                                     *)
(*   - MetricsCalculator.aggregate_scores (src/utils/metrics.py),          *)
(*   - Evaluator.evaluate (src/evaluator/evaluator.py).                    *)
(*                                                                         *)
(* Numbers.  Python floats are modelled as exact rationals <<n, d>> with   *)
(* d > 0 in lowest terms, so that equality of two values is equality of    *)
(* their representations.  Rounding error of binary floating point is not  *)
(* modelled.  Scores found in a judge response are natural numbers here    *)
(* (the score pattern \d+(?:\.\d+)? cannot match a sign).                  *)
(***************************************************************************)
EXTENDS Integers, Sequences, FiniteSets, TLC

-----------------------------------------------------------------------------------------------------------------------------------------------------
(* Exact rational arithmetic                                               *)

Abs(x) == IF x < 0 THEN -x ELSE x

RECURSIVE Gcd(_, _)
Gcd(a, b) == IF b = 0 THEN a ELSE Gcd(b, a % b)

\* n/d divided through by g, the denominator made positive
Reduce(n, d, g) ==
    IF d < 0 THEN <<(-n) \div g, (-d) \div g>> ELSE <<n \div g, d \div g>>

\* the rational n/d (d # 0) in lowest terms
Rat(n, d) == Reduce(n, d, Gcd(Abs(n), Abs(d)))

R(x) == <<x, 1>>
RAdd(a, b) == Rat(a[1] * b[2] + b[1] * a[2], a[2] * b[2])
RSub(a, b) == Rat(a[1] * b[2] - b[1] * a[2], a[2] * b[2])
RMul(a, b) == Rat(a[1] * b[1], a[2] * b[2])
\* a / b for b # 0
RDiv(a, b) == Rat(a[1] * b[2], a[2] * b[1])
RLe(a, b) == a[1] * b[2] <= b[1] * a[2]
RLt(a, b) == a[1] * b[2] < b[1] * a[2]

\* floor of a non-negative rational
RFloor(a) == a[1] \div a[2]

-----------------------------------------------------------------------------
(* Python lists and dicts                                                  *)

\* {}
EmptyDict == [k \in {} |-> 0]

\* dict.get(key, default) on a dict modelled as a function
DictGet(d, key, default) == IF key \in DOMAIN d THEN d[key] ELSE default

\* d[key] = value on a dict modelled as a function
DictSet(d, key, value) ==
    [k \in (DOMAIN d) \cup {key} |-> IF k = key THEN value ELSE d[k]]

RECURSIVE SumR(_)
SumR(s) == IF s = <<>> THEN R(0) ELSE RAdd(Head(s), SumR(Tail(s)))

\* insert x into the ascending list s
RECURSIVE InsertSorted(_, _)
InsertSorted(x, s) ==
    IF s = <<>> THEN <<x>>
    ELSE IF RLe(x, Head(s)) THEN <<x>> \o s
    ELSE <<Head(s)>> \o InsertSorted(x, Tail(s))

\* sorted(s), ascending
RECURSIVE Sorted(_)
Sorted(s) == IF s = <<>> THEN <<>> ELSE InsertSorted(Head(s), Sorted(Tail(s)))

\* [R(x) for x in s]
ToR(s) == [k \in 1..Len(s) |-> R(s[k])]

-----------------------------------------------------------------------------
(* statistics and numpy                                                    *)

\* the value at the virtual index vidx (from 0) of the sorted data srt,
\* interpolated linearly between its two neighbours
Interpolate(srt, vidx) ==
    LET lo == RFloor(vidx)
        hi == IF lo + 1 < Len(srt) THEN lo + 1 ELSE lo
    IN  RAdd(srt[lo + 1],
             RMul(RSub(vidx, R(lo)), RSub(srt[hi + 1], srt[lo + 1])))

\* np.percentile(scores, q) for a non-empty list, default method "linear":
\* the virtual index (n-1)*q/100 into the sorted data
Percentile(scores, q) ==
    Interpolate(Sorted(ToR(scores)), Rat((Len(scores) - 1) * q, 100))

\* the middle of sorted data: the middle value, or the mean of the two
MiddleOf(srt) ==
    LET n == Len(srt)
    IN  IF n % 2 = 1 THEN srt[(n \div 2) + 1]
        ELSE RDiv(RAdd(srt[n \div 2], srt[(n \div 2) + 1]), R(2))

\* statistics.median(data) for a non-empty list
Median(data) == MiddleOf(Sorted(ToR(data)))

\* statistics.mean(data) for a non-empty list of rationals
Mean(data) == RDiv(SumR(data), R(Len(data)))

\* the sum of the squared deviations of xs from m
SumSquares(xs, m) ==
    SumR([k \in 1..Len(xs) |-> RMul(RSub(xs[k], m), RSub(xs[k], m))])

\* statistics.variance(data): the sample variance, for at least two values
Variance(data) ==
    RDiv(SumSquares(ToR(data), Mean(ToR(data))), R(Len(data) - 1))

-----
(* Exceptions: a call returns Ok(value) or Raise(exception class)          *)

Ok(v) == [val |-> v]
Raise(e) == [exc |-> e]
IsExc(r) == "exc" \in DOMAIN r

-----------------------------------------------------------------------------
(* The configuration pools (pool/task_pool.json, pool/metrics_pool.json).  *)
(* A JSON object whose order matters (weightages, scoring_criteria) is a   *)
(* sequence of entries in declaration order.  The pool files are data, not *)
(* code; the pool below holds the rubrics the repository names: the        *)
(* conversation rubric of config/evaluation_config.py with the criteria of *)
(* sonnet_python.py, a two-metric rubric with equal weights and range      *)
(* [0,10], and rubrics whose metric definitions are incomplete, which the  *)
(* loader accepts as it validates nothing.                                 *)

W(metric, n, d) == [metric |-> metric, weight |-> Rat(n, d)]

\* list(weightages.keys())
WeightKeys(weightages) == [k \in 1..Len(weightages) |-> weightages[k].metric]

\* weightages[metric]
WeightOf(weightages, metric) ==
    LET k == CHOOSE j \in 1..Len(weightages) : weightages[j].metric = metric
    IN  weightages[k].weight

Range(lo, hi) == [min |-> lo, max |-> hi]

ZeroToTen == [k \in 1..11 |-> k - 1]

MetricsPoolFile ==
    << \* group "quality"
       [ accuracy  |-> [description |-> "d", score_range |-> Range(0, 10),
                        scoring_criteria |-> ZeroToTen],
         brevity   |-> [description |-> "d", score_range |-> Range(0, 10),
                        scoring_criteria |-> ZeroToTen],
         \* criteria declared from best to worst, range not starting at 0
         readability |-> [description |-> "d", score_range |-> Range(1, 5),
                          scoring_criteria |-> <<5, 3, 1>>],
         \* no score_range: the parser's default {min: 0, max: 10} applies
         efficiency  |-> [description |-> "d", scoring_criteria |-> <<10, 6>>],
         \* a score_range without "max"
         tone        |-> [description |-> "d", score_range |-> [min |-> 0],
                          scoring_criteria |-> <<0, 5, 10>>],
         \* no scoring_criteria
         style       |-> [description |-> "d", score_range |-> Range(0, 10)],
         \* a range of one value
         presence    |-> [description |-> "d", score_range |-> Range(5, 5),
                          scoring_criteria |-> <<5>>],
         \* a name that ends with the name of another metric
         factual_accuracy |-> [description |-> "d", score_range |-> Range(0, 10),
                               scoring_criteria |-> <<10, 5, 0>>] ],
       \* group "conversation"
       [ coherence |-> [description |-> "d", score_range |-> Range(0, 25),
                        scoring_criteria |-> <<25, 20, 15, 10, 5>>],
         relevance |-> [description |-> "d", score_range |-> Range(0, 25),
                        scoring_criteria |-> <<25, 20, 15, 10, 5>>],
         helpfulness |-> [description |-> "d", score_range |-> Range(0, 25),
                          scoring_criteria |-> <<25, 20, 15, 10, 5>>],
         context_awareness |-> [description |-> "d", score_range |-> Range(0, 15),
                                scoring_criteria |-> <<15, 10, 5>>],
         consistency |-> [description |-> "d", score_range |-> Range(0, 10),
                          scoring_criteria |-> <<10, 7, 3>>] ] >>

TaskPoolFile ==
    [task_types |->
       [ conversation_evaluation |->
           [system_prompt |-> "p",
            weightages |-> << W("coherence", 25, 100), W("relevance", 25, 100),
                              W("helpfulness", 25, 100),
                              W("context_awareness", 15, 100),
                              W("consistency", 10, 100) >>],
         content_writing |->
           [system_prompt |-> "p",
            weightages |-> << W("accuracy", 1, 2), W("brevity", 1, 2) >>],
         code_quality_evaluation |->
           [system_prompt |-> "p",
            weightages |-> << W("readability", 3, 5), W("efficiency", 2, 5) >>],
         tone_review |->
           [system_prompt |-> "p",
            weightages |-> << W("tone", 1, 2), W("presence", 1, 2) >>],
         style_review |->
           [system_prompt |-> "p",
            weightages |-> << W("style", 1, 2), W("fluency", 1, 2) >>],
         readability_review |->
           [system_prompt |-> "p", weightages |-> << W("readability", 1, 1) >>],
         fact_check |->
           [system_prompt |-> "p",
            weightages |-> << W("factual_accuracy", 1, 2), W("accuracy", 1, 2) >>] ] ]

-----------------------------------------------------------------------------------------------------------------------------------------------------
(* MetricsCalculator (src/utils/metrics.py)                                *)

\* f"{metric}_score" and f"{metric}_justification"
ScoreKey(metric) == metric \o "_score"
JustificationKey(metric) == metric \o "_justification"

\* the first metric group that defines the name, as a one-element set
\* (empty when no group defines it)
RECURSIVE FindMetric(_, _)
FindMetric(mp, metric_name) ==
    IF mp = <<>> THEN {}
    ELSE IF metric_name \in DOMAIN Head(mp) THEN {Head(mp)[metric_name]}
    ELSE FindMetric(Tail(mp), metric_name)

TheOne(set) == CHOOSE c \in set : TRUE

RECURSIVE MaxOf(_)
MaxOf(s) ==
    IF Len(s) = 1 THEN s[1]
    ELSE IF s[1] >= MaxOf(Tail(s)) THEN s[1] ELSE MaxOf(Tail(s))

get_metrics_for_task(tp, task_type) ==
    IF task_type \notin DOMAIN tp.task_types THEN Raise("ValueError")
    ELSE Ok(WeightKeys(tp.task_types[task_type].weightages))

\* max(float(score) for score in <the metric's>["scoring_criteria"].keys()),
\* given the metric's definition as found (a set of at most one)
MaxCriterion(found) ==
    IF found = {} THEN Raise("ValueError")
    ELSE IF "scoring_criteria" \notin DOMAIN TheOne(found) THEN Raise("KeyError")
    ELSE IF TheOne(found).scoring_criteria = <<>> THEN Raise("ValueError")
    ELSE Ok(MaxOf(TheOne(found).scoring_criteria))

get_max_score(mp, metric_name) == MaxCriterion(FindMetric(mp, metric_name))

\* score / max_score, given what get_max_score returned
DivideByMax(score, mx) ==
    IF IsExc(mx) THEN mx
    ELSE IF mx.val = 0 THEN Raise("ZeroDivisionError")
    ELSE Ok(RDiv(score, R(mx.val)))

normalize_score(mp, score, metric) == DivideByMax(score, get_max_score(mp, metric))

\* the fences q1 - 1.5*iqr and q3 + 1.5*iqr
Fences(q1, q3) ==
    [lower |-> RSub(q1, RMul(Rat(3, 2), RSub(q3, q1))),
     upper |-> RAdd(q3, RMul(Rat(3, 2), RSub(q3, q1)))]

\* the two quartiles taken in the wrong order
IQRFences_swapped(scores) == Fences(Percentile(scores, 75), Percentile(scores, 25))

\* the fences of a non-empty list of scores
IQRFences(scores) == Fences(Percentile(scores, 25), Percentile(scores, 75))

\* [s for s in scores if lower <= s <= upper]
KeepWithin(scores, f) ==
    LET Keep(x) == RLe(f.lower, R(x)) /\ RLe(R(x), f.upper)
    IN  SelectSeq(scores, Keep)

\* mutant: the fences themselves excluded
KeepStrictlyWithin(scores, f) ==
    LET Keep(x) == RLt(f.lower, R(x)) /\ RLt(R(x), f.upper)
    IN  SelectSeq(scores, Keep)

FilterOutliers_strict(scores) == KeepStrictlyWithin(scores, IQRFences(scores))

\* the outlier filter of aggregate_scores on a non-empty list
FilterOutliers(scores) == KeepWithin(scores, IQRFences(scores))

\* justifications[:3]
FirstThree(s) == IF Len(s) <= 3 THEN s ELSE SubSeq(s, 1, 3)

\* [eval.get(key, default) for eval in evaluations]
Column(evaluations, key, default) ==
    [k \in 1..Len(evaluations) |-> DictGet(evaluations[k], key, default)]

\* statistics.median(filtered_scores) if filtered_scores else 0
MedianOrZero(filtered_scores) ==
    IF filtered_scores # <<>> THEN Median(filtered_scores) ELSE R(0)

\* statistics.variance(filtered_scores) if len(filtered_scores) > 1 else 0
VarianceOrZero(filtered_scores) ==
    IF Len(filtered_scores) > 1 THEN Variance(filtered_scores) ELSE R(0)

\* the entry aggregated[metric], given the normalized score
MetricEntry(scores, filtered_scores, justifications, median_score, normalized, weight) ==
    IF IsExc(normalized) THEN normalized
    ELSE Ok([score |-> median_score,
             raw_scores |-> scores,
             filtered_scores |-> filtered_scores,
             variance |-> VarianceOrZero(filtered_scores),
             justifications |-> FirstThree(justifications),
             normalized_score |-> normalized.val,
             weighted_score |-> RMul(normalized.val, weight),
             weight |-> weight])

\* the loop body from the median on
FromMedian(scores, filtered_scores, justifications, median_score, mp, metric, weight) ==
    MetricEntry(scores, filtered_scores, justifications, median_score,
                normalize_score(mp, median_score, metric), weight)

\* the loop body from the filtered scores on
FromFiltered(scores, filtered_scores, justifications, mp, metric, weight) ==
    FromMedian(scores, filtered_scores, justifications,
               MedianOrZero(filtered_scores), mp, metric, weight)

\* The loop body from the scores on.  np.percentile of an empty list depends
\* on the numpy release: it raises IndexError, or it returns nan, and then no
\* score passes the comparison with the fences.
FromScores(scores, justifications, mp, metric, weight, np_empty) ==
    IF scores = <<>> /\ np_empty = "IndexError" THEN Raise("IndexError")
    ELSE FromFiltered(scores,
                      IF scores = <<>> THEN <<>> ELSE FilterOutliers(scores),
                      justifications, mp, metric, weight)

\* one pass of the loop over the metrics
AggregateMetric(evaluations, weightages, mp, metric, np_empty) ==
    FromScores(Column(evaluations, ScoreKey(metric), 0),
               Column(evaluations, JustificationKey(metric), ""),
               mp, metric, WeightOf(weightages, metric), np_empty)

\* aggregated[metric] = entry, and on with the rest of the loop; an
\* exception ends the call
RECURSIVE AggregateLoop(_, _, _, _, _, _)
StoreAndLoop(evaluations, weightages, mp, metrics, np_empty, aggregated, entry) ==
    IF IsExc(entry) THEN entry
    ELSE AggregateLoop(evaluations, weightages, mp, Tail(metrics), np_empty,
                       DictSet(aggregated, Head(metrics), entry.val))

\* the loop over the metrics, in order
AggregateLoop(evaluations, weightages, mp, metrics, np_empty, aggregated) ==
    IF metrics = <<>> THEN Ok(aggregated)
    ELSE StoreAndLoop(evaluations, weightages, mp, metrics, np_empty, aggregated,
             AggregateMetric(evaluations, weightages, mp, Head(metrics), np_empty))

\* sum(metric_data["weighted_score"] for metric_data in aggregated.values())
TotalWeighted(aggregated, metrics) ==
    SumR([k \in 1..Len(metrics) |-> aggregated[metrics[k]].weighted_score])

\* aggregated["total_weighted_score"] = total_weighted_score; return aggregated
\* (the per-metric entries are kept under "metrics" here)
WithTotal(looped, metrics) ==
    IF IsExc(looped) THEN looped
    ELSE Ok([metrics |-> looped.val,
             total_weighted_score |-> TotalWeighted(looped.val, metrics)])

\* aggregate_scores(evaluations, task_type)
aggregate_scores(tp, mp, evaluations, task_type, np_empty) ==
    IF task_type \notin DOMAIN tp.task_types THEN Raise("ValueError")
    ELSE WithTotal(AggregateLoop(evaluations, tp.task_types[task_type].weightages, mp,
                                 WeightKeys(tp.task_types[task_type].weightages),
                                 np_empty, <<>>),
                   WeightKeys(tp.task_types[task_type].weightages))

\* the largest integer whose square is at most n, searched between lo and hi
RECURSIVE ISqrtBetween(_, _, _)
ISqrtBetween(n, lo, hi) ==
    IF lo >= hi THEN lo
    ELSE IF ((lo + hi + 1) \div 2) <= n \div ((lo + hi + 1) \div 2)
    THEN ISqrtBetween(n, (lo + hi + 1) \div 2, hi)
    ELSE ISqrtBetween(n, lo, ((lo + hi + 1) \div 2) - 1)

\* the digits kept of a square root that is not rational: three decimals
RootScale == 10 * 10 * 10

\* math.sqrt of a non-negative rational: exact when the root is rational,
\* else cut after the digits kept
RSqrt(a) ==
    IF ISqrtBetween(a[1] * a[2], 0, a[1] * a[2]) * ISqrtBetween(a[1] * a[2], 0, a[1] * a[2])
           = a[1] * a[2]
    THEN Rat(ISqrtBetween(a[1] * a[2], 0, a[1] * a[2]), a[2])
    ELSE Rat(ISqrtBetween(a[1] * a[2] * RootScale * RootScale, 0,
                          a[1] * a[2] * RootScale),
             a[2] * RootScale)

\* round(x, 2) for x >= 0: the nearest multiple of 1/100, the even one of
\* two equally near
Round2(x) ==
    LET scaled == RMul(x, R(100))
        below  == RFloor(scaled)
        twice  == RSub(RMul(scaled, R(2)), R(2 * below))
    IN  IF RLt(twice, R(1)) THEN Rat(below, 100)
        ELSE IF RLt(R(1), twice) THEN Rat(below + 1, 100)
        ELSE IF below % 2 = 0 THEN Rat(below, 100)
        ELSE Rat(below + 1, 100)

\* variances (lines 38-46): one per metric when there is more than one
\* evaluation, none otherwise
VariancesOf(evaluations, metrics) ==
    IF Len(evaluations) > 1
    THEN [k \in 1..Len(metrics) |-> Variance(Column(evaluations, ScoreKey(metrics[k]), 0))]
    ELSE <<>>

MeanOrZero(values) == IF values = <<>> THEN R(0) ELSE Mean(values)

Roots(values) == [k \in 1..Len(values) |-> RSqrt(values[k])]

\* max(self.get_max_score(metric) for metric in metrics), given the results
\* of get_max_score in order: the first exception is raised, and max() of
\* nothing raises ValueError
RECURSIVE MaxOfResults(_, _)
MaxOfResults(results, best) ==
    IF results = <<>> THEN best
    ELSE IF IsExc(Head(results)) THEN Head(results)
    ELSE IF IsExc(best) \/ Head(results).val > best.val
    THEN MaxOfResults(Tail(results), Head(results))
    ELSE MaxOfResults(Tail(results), best)

\* lines 48-55, given the variances and max_possible_std
ConfidenceFrom(variances, max_possible_std) ==
    IF IsExc(max_possible_std) THEN max_possible_std
    ELSE IF max_possible_std.val = 0 THEN Raise("ZeroDivisionError")
    ELSE Ok(<<Round2(RDiv(R(1), RAdd(R(1), MeanOrZero(variances)))),
              Round2(RSub(R(1), RDiv(MeanOrZero(Roots(variances)),
                                     R(max_possible_std.val))))>>)

\* calculate_confidence_and_reliability(evaluations, task_type)
calculate_confidence_and_reliability(tp, mp, evaluations, task_type) ==
    IF task_type \notin DOMAIN tp.task_types THEN Raise("ValueError")
    ELSE ConfidenceFrom(
             VariancesOf(evaluations, WeightKeys(tp.task_types[task_type].weightages)),
             MaxOfResults([k \in 1..Len(tp.task_types[task_type].weightages) |->
                              get_max_score(mp, tp.task_types[task_type].weightages[k].metric)],
                          Raise("ValueError")))

-----------------------------------------------------------------------------
(* LLMResponseParser (src/utils/llm_parser.py), the parser of Evaluator.   *)
(* What the judge client hands to the parser is a record: str says whether *)
(* it is a Python str (generate_response returns response.json(), which is *)
(* a str only when the body is a JSON string), lines are the tagged lines  *)
(* of the text in order, trailing_ws says whether whitespace follows the   *)
(* last line.  A tag is the metric name it is written with (the text       *)
(* carries it upper-cased, as the patterns do).                            *)

ScoreLine(tag, val) ==
    [tag |-> tag, kind |-> "SCORE", num |-> TRUE, val |-> val, text |-> ""]

\* a score line whose value does not start with a digit ("-3", "high")
BadScoreLine(tag) ==
    [tag |-> tag, kind |-> "SCORE", num |-> FALSE, val |-> 0, text |-> ""]

JustificationLine(tag, text) ==
    [tag |-> tag, kind |-> "JUSTIFICATION", num |-> FALSE, val |-> 0, text |-> text]

TextResponse(lines) == [str |-> TRUE, lines |-> lines, trailing_ws |-> TRUE]

\* a parsed JSON body that is an object, not a string
JsonObject == [str |-> FALSE, lines |-> <<>>, trailing_ws |-> FALSE]

\* re.search is not anchored: METRIC_SCORE: also matches inside
\* OTHER_METRIC_SCORE:
EndsWith(tag, metric) ==
    /\ Len(tag) >= Len(metric)
    /\ SubSeq(tag, Len(tag) - Len(metric) + 1, Len(tag)) = metric

\* a pattern without the metric's tag: every score line with a number
ScoreMatches_untagged(response, metric) ==
    SelectSeq(response.lines, LAMBDA l : l.kind = "SCORE" /\ l.num)

\* the lines rf"{metric.upper()}_SCORE:\s*(\d+(?:\.\d+)?)" matches
ScoreMatches(response, metric) ==
    SelectSeq(response.lines,
              LAMBDA l : l.kind = "SCORE" /\ l.num /\ EndsWith(l.tag, metric))

\* float(score_match.group(1)), or 0.0 from the except branch when there is
\* no match
FirstOrZero(matches) == IF matches = <<>> THEN 0 ELSE Head(matches).val

\* _extract_score(response, metric): re.search on a non-str raises
\* TypeError, which the except branch turns into 0.0
_extract_score(response, metric) ==
    IF ~response.str THEN 0 ELSE FirstOrZero(ScoreMatches(response, metric))

NoJustification == "No justification provided"

\* the indices of the lines METRIC_JUSTIFICATION: matches
JustificationMatches(response, metric) ==
    {k \in 1..Len(response.lines) :
        /\ response.lines[k].kind = "JUSTIFICATION"
        /\ EndsWith(response.lines[k].tag, metric)}

\* group(1).strip() of \s*(.+?)(?=\w+_(?:SCORE|JUSTIFICATION):|$) at line k:
\* the text up to the next tag; with no text, \s* runs over the line break
\* and .+? takes the first character of the next tag; at the end of the
\* response .+? can only take trailing whitespace, and without any there is
\* no match
Captured(response, k) ==
    IF response.lines[k].text # "" THEN response.lines[k].text
    ELSE IF k < Len(response.lines) THEN SubSeq(response.lines[k + 1].tag, 1, 1)
    ELSE IF response.trailing_ws THEN ""
    ELSE NoJustification

FirstCaptured(response, matches) ==
    IF matches = {} THEN NoJustification
    ELSE Captured(response, CHOOSE k \in matches : \A j \in matches : k <= j)

ExtractJustification(response, metric) ==
    FirstCaptured(response, JustificationMatches(response, metric))

\* _extract_metric_data(response, metric) -> (score, justification)
_extract_metric_data(response, metric) ==
    IF ~response.str \/ ScoreMatches(response, metric) = <<>>
    THEN <<0, "Error extracting data">>
    ELSE <<Head(ScoreMatches(response, metric)).val,
           ExtractJustification(response, metric)>>

\* _validate_score(score, min_score, max_score): the out-of-range cases only
\* call logging.warning
_validate_score(score, min_score, max_score) ==
    IF score < min_score THEN min_score
    ELSE IF score > max_score THEN max_score
    ELSE score

\* a mutant of _normalize_score: the max == min case is not special
normalize_no_guard(score, min_score, max_score) ==
    IF max_score = min_score THEN R(0)
    ELSE Rat(score - min_score, max_score - min_score)

\* _normalize_score(score, min_score, max_score)
_normalize_score(score, min_score, max_score) ==
    IF max_score = min_score
    THEN (IF score >= max_score THEN R(1) ELSE R(0))
    ELSE Rat(score - min_score, max_score - min_score)

\* _validate_justification(justification, metric, validation_issues): the
\* try block only returns the justification
_validate_justification(justification, metric, validation_issues) == justification

\* result = {"raw_scores": {}, "normalized_scores": {}, "validation_issues": []}
\* (and "justifications": {} when they are included), with the running
\* totals of the metric loop
NewResult(include_justification) ==
    [result |->
        IF include_justification
        THEN [raw_scores |-> EmptyDict, normalized_scores |-> EmptyDict,
              validation_issues |-> <<>>, justifications |-> EmptyDict]
        ELSE [raw_scores |-> EmptyDict, normalized_scores |-> EmptyDict,
              validation_issues |-> <<>>],
     total_weighted_score |-> R(0),
     total_weight |-> R(0)]

\* a validation issue: the message's wording and the metric it names
Issue(wording, metric) == [issue |-> wording, metric |-> metric]

\* result["validation_issues"].append(...)
WithIssue(acc, issue) ==
    [acc EXCEPT !.result.validation_issues = Append(@, issue)]

\* result["justifications"][metric] = justification
WithJustification(acc, metric, justification) ==
    [acc EXCEPT !.result.justifications = DictSet(@, metric, justification)]

\* result["raw_scores"][metric] = score ... total_weight += weight
Scored(acc, metric, weight, score, normalized_score) ==
    [acc EXCEPT !.result.raw_scores = DictSet(@, metric, score),
                !.result.normalized_scores = DictSet(@, metric, normalized_score),
                !.total_weighted_score = RAdd(@, RMul(normalized_score, weight)),
                !.total_weight = RAdd(@, weight)]

\* metric_config.get("score_range", {"min": 0, "max": 10})
ScoreRangeOf(metric_config) ==
    IF "score_range" \in DOMAIN metric_config THEN metric_config.score_range
    ELSE Range(0, 10)

\* lines 53-61, given the extracted score; score_range["min"] or ["max"]
\* raises KeyError when the key is missing, which the except branch of the
\* loop turns into a validation issue
ValidateAndStore(acc, metric, weight, score, score_range) ==
    IF {"min", "max"} \subseteq DOMAIN score_range
    THEN Scored(acc, metric, weight,
                _validate_score(score, score_range.min, score_range.max),
                _normalize_score(_validate_score(score, score_range.min, score_range.max),
                                 score_range.min, score_range.max))
    ELSE WithIssue(acc, Issue("Error processing metric", metric))

\* lines 44-61, given the metric's score_range
ExtractAndStore(acc, response, metric, weight, score_range, include_justification) ==
    IF include_justification
    THEN ValidateAndStore(
             WithJustification(acc, metric,
                 _validate_justification(_extract_metric_data(response, metric)[2],
                                         metric, acc.result.validation_issues)),
             metric, weight, _extract_metric_data(response, metric)[1], score_range)
    ELSE ValidateAndStore(acc, metric, weight, _extract_score(response, metric),
                          score_range)

\* the body of the metric loop (lines 39-66), given the metric's definition
\* as found (a set of at most one): get_metrics_config raises ValueError for
\* an undefined metric
ProcessMetric(acc, response, found, metric, weight, include_justification) ==
    IF found = {} THEN WithIssue(acc, Issue("Error processing metric", metric))
    ELSE ExtractAndStore(acc, response, metric, weight, ScoreRangeOf(TheOne(found)),
                         include_justification)

\* for metric, weight in task_config["weightages"].items()
RECURSIVE ParseLoop(_, _, _, _, _)
ParseLoop(acc, response, mp, weightages, include_justification) ==
    IF weightages = <<>> THEN acc
    ELSE ParseLoop(ProcessMetric(acc, response, FindMetric(mp, Head(weightages).metric),
                                 Head(weightages).metric, Head(weightages).weight,
                                 include_justification),
                   response, mp, Tail(weightages), include_justification)

\* lines 69-74: result["total_weighted_score"] = total_weighted_score /
\* total_weight if total_weight > 0 else 0
WithTotalScore(acc) ==
    DictSet(acc.result, "total_weighted_score",
            IF RLt(R(0), acc.total_weight)
            THEN RDiv(acc.total_weighted_score, acc.total_weight)
            ELSE R(0))

\* parse_evaluation_response(response, task_type, include_justification)
parse_evaluation_response(tp, mp, response, task_type, include_justification) ==
    IF task_type \notin DOMAIN tp.task_types THEN Raise("ValueError")
    ELSE Ok(WithTotalScore(ParseLoop(NewResult(include_justification), response, mp,
                                     tp.task_types[task_type].weightages,
                                     include_justification)))

-----------------------------------------------------------------------------
(* LLMResponseParser of the atlas package (src/atlas/utils/llm_parser.py): *)
(* the same loop with criteria validation, issues for clamped scores and   *)
(* for poor justifications, and zero scores for a metric that fails.  The  *)
(* helpers that append to the issues list return the list with the value.  *)
(* Its config_manager has the lookups of src/config/config_manager.py.      *)

\* _extract_score is the one of the other parser, line for line
atlas_extract_score(response, metric) ==
    IF ~response.str THEN 0 ELSE FirstOrZero(ScoreMatches(response, metric))

\* _extract_metric_data(response, metric): re.search on a non-str raises
\* inside the try, after the score was extracted
atlas_extract_metric_data(response, metric) ==
    <<atlas_extract_score(response, metric),
      IF ~response.str THEN "Error extracting justification"
      ELSE ExtractJustification(response, metric)>>

\* _validate_score(score, min_score, max_score, metric, issues)
atlas_validate_score(score, min_score, max_score, metric, issues) ==
    IF score < min_score
    THEN [score |-> min_score, issues |-> Append(issues, Issue("below minimum", metric))]
    ELSE IF score > max_score
    THEN [score |-> max_score, issues |-> Append(issues, Issue("above maximum", metric))]
    ELSE [score |-> score, issues |-> issues]

\* min(valid_scores, key=lambda x: abs(x - score)): the first of the nearest
\* values in the order the criteria are declared
Closest(valid_scores, score) ==
    valid_scores[CHOOSE k \in 1..Len(valid_scores) :
        /\ \A j \in 1..Len(valid_scores) :
              Abs(valid_scores[k] - score) <= Abs(valid_scores[j] - score)
        /\ \A j \in 1..(k - 1) :
              Abs(valid_scores[j] - score) > Abs(valid_scores[k] - score)]

\* _validate_against_criteria(score, criteria, metric, issues), criteria
\* being the declared scores, not empty (min() of an empty list raises
\* ValueError)
_validate_against_criteria(score, criteria, metric, issues) ==
    IF \E k \in 1..Len(criteria) : criteria[k] = score
    THEN [score |-> score, issues |-> issues]
    ELSE [score |-> Closest(criteria, score),
          issues |-> Append(issues, Issue("not in valid scores", metric))]

\* _validate_justification(justification, metric, issues)
atlas_validate_justification(justification, metric, issues) ==
    IF justification = ""
    THEN [justification |-> NoJustification,
          issues |-> Append(issues, Issue("Empty justification", metric))]
    ELSE IF Len(justification) < 10
    THEN [justification |-> justification,
          issues |-> Append(issues, Issue("Very short justification", metric))]
    ELSE [justification |-> justification, issues |-> issues]

\* _normalize_score(score, min_score, max_score)
atlas_normalize_score(score, min_score, max_score) ==
    IF max_score = min_score
    THEN (IF score >= max_score THEN R(1) ELSE R(0))
    ELSE Rat(score - min_score, max_score - min_score)

\* the value and the issues list a helper returned, put into the result
WithIssues(acc, issues) == [acc EXCEPT !.result.validation_issues = issues]

\* the except branch of the metric loop (lines 72-78)
AtlasFailed(acc, metric, include_justification) ==
    LET failed == [acc EXCEPT
                     !.result.validation_issues =
                         Append(@, Issue("Failed to process metric", metric)),
                     !.result.raw_scores = DictSet(@, metric, 0),
                     !.result.normalized_scores = DictSet(@, metric, R(0))]
    IN  IF include_justification THEN WithJustification(failed, metric, "Error")
        ELSE failed

\* lines 63-70, given what _validate_score returned
AtlasStore(acc, metric, weight, validated, score_range) ==
    Scored(WithIssues(acc, validated.issues), metric, weight, validated.score,
           atlas_normalize_score(validated.score, score_range.min, score_range.max))

\* lines 55-70, given the score after the criteria validation
AtlasValidateAndStore(acc, metric, weight, score, score_range, include_justification) ==
    IF {"min", "max"} \subseteq DOMAIN score_range
    THEN AtlasStore(acc, metric, weight,
                    atlas_validate_score(score, score_range.min, score_range.max,
                                         metric, acc.result.validation_issues),
                    score_range)
    ELSE AtlasFailed(acc, metric, include_justification)

\* lines 55-70, given what _validate_against_criteria returned
AtlasAfterCriteria(acc, metric, weight, snapped, score_range, include_justification) ==
    AtlasValidateAndStore(WithIssues(acc, snapped.issues), metric, weight,
                          snapped.score, score_range, include_justification)

\* lines 46-70, given the extracted score
AtlasCriteria(acc, metric_config, metric, weight, score, include_justification) ==
    IF "scoring_criteria" \notin DOMAIN metric_config
    THEN AtlasValidateAndStore(acc, metric, weight, score, ScoreRangeOf(metric_config),
                               include_justification)
    ELSE IF metric_config.scoring_criteria = <<>>
    THEN AtlasFailed(acc, metric, include_justification)
    ELSE AtlasAfterCriteria(acc, metric, weight,
             _validate_against_criteria(score, metric_config.scoring_criteria, metric,
                                        acc.result.validation_issues),
             ScoreRangeOf(metric_config), include_justification)

\* lines 40-42, given what _validate_justification returned
AtlasJustified(acc, metric, validated) ==
    WithJustification(WithIssues(acc, validated.issues), metric, validated.justification)

\* lines 37-70, given the metric's definition
AtlasExtract(acc, response, metric_config, metric, weight, include_justification) ==
    IF include_justification
    THEN AtlasCriteria(
             AtlasJustified(acc, metric,
                 atlas_validate_justification(
                     atlas_extract_metric_data(response, metric)[2], metric,
                     acc.result.validation_issues)),
             metric_config, metric, weight,
             atlas_extract_metric_data(response, metric)[1], include_justification)
    ELSE AtlasCriteria(acc, metric_config, metric, weight,
                       atlas_extract_score(response, metric), include_justification)

\* the body of the metric loop (lines 33-78)
AtlasProcessMetric(acc, response, found, metric, weight, include_justification) ==
    IF found = {} THEN AtlasFailed(acc, metric, include_justification)
    ELSE AtlasExtract(acc, response, TheOne(found), metric, weight,
                      include_justification)

RECURSIVE AtlasParseLoop(_, _, _, _, _)
AtlasParseLoop(acc, response, mp, weightages, include_justification) ==
    IF weightages = <<>> THEN acc
    ELSE AtlasParseLoop(
             AtlasProcessMetric(acc, response, FindMetric(mp, Head(weightages).metric),
                                Head(weightages).metric, Head(weightages).weight,
                                include_justification),
             response, mp, Tail(weightages), include_justification)

\* parse_evaluation_response(response) of a parser built with
\* config.task_type and config.include_justification (the "metadata" entry
\* of the result is left out)
atlas_parse_evaluation_response(tp, mp, response, task_type, include_justification) ==
    IF task_type \notin DOMAIN tp.task_types THEN Raise("ValueError")
    ELSE Ok(WithTotalScore(AtlasParseLoop(NewResult(include_justification), response,
                                          mp, tp.task_types[task_type].weightages,
                                          include_justification)))

-----
(* State                                                                   *)

VARIABLES
    task_pool,        \* config_manager.task_pool (and MetricsCalculator's copy)
    metrics_pool,     \* config_manager.metrics_pool (and MetricsCalculator's copy)
    numpy_empty,      \* what np.percentile does with an empty list: "nan" or "IndexError"
    pc,               \* where the modelled call stands
    task_type,        \* the task type of the call (Evaluator.task_type)
    num_evaluations,  \* Evaluator.num_evaluations
    all_evaluations,  \* the batch: the list of evaluations handed to the aggregator
    aggregated,       \* what aggregate_scores returned or raised, NoValue before
    response,         \* what the judge returned, handed to the parser (in an
                      \* evaluation: one per sample, in order)
    parsed,           \* what parse_evaluation_response returned or raised (in an
                      \* evaluation: one per sample, in order)
    args,             \* the arguments of a helper called on its own
    ret               \* what the helper returned

vars == <<task_pool, metrics_pool, numpy_empty, pc, task_type, num_evaluations,
          all_evaluations, aggregated, response, parsed, args, ret>>

NoValue == [none |-> TRUE]
IsNone(v) == "none" \in DOMAIN v
Returned(v) == "val" \in DOMAIN v

\* the most evaluations of a batch explored exhaustively
MaxEvals == 4

PoolsLoaded ==
    /\ task_pool = TaskPoolFile
    /\ metrics_pool = MetricsPoolFile
    /\ numpy_empty \in {"nan", "IndexError"}

-----------------------------------------------------------------------------
(* The aggregator called on a batch of evaluations.  An evaluation is the  *)
(* flat dict the aggregator reads: f"{metric}_score" -> score, a key being *)
(* absent when the response held no such line (the dict that               *)
(* _parse_llm_response of sonnet_python.py builds).                        *)

\* the scores a judge gives a metric in the batches explored
SampleScores(metric) ==
    CASE metric = "accuracy" -> {5, 10}
      [] metric = "brevity"  -> {2}
      [] OTHER               -> {1}

\* every flat evaluation over the metrics: each score present or absent
RECURSIVE FlatEvaluations(_)
FlatEvaluations(metrics) ==
    IF metrics = <<>> THEN {EmptyDict}
    ELSE LET rest == FlatEvaluations(Tail(metrics))
             m    == Head(metrics)
         IN  rest \cup
             {DictSet(e, ScoreKey(m), v) : e \in rest, v \in SampleScores(m)}

\* the sample scores of jhgjhg.py: five evaluations of the conversation rubric
ScenarioScores ==
    [coherence |-> <<23, 24, 22, 25, 15>>,
     relevance |-> <<21, 22, 23, 22, 21>>,
     helpfulness |-> <<24, 23, 25, 24, 23>>,
     context_awareness |-> <<13, 14, 13, 14, 8>>,
     consistency |-> <<9, 8, 9, 8, 9>>]

ScenarioBatch ==
    [k \in 1..5 |->
        [key \in {ScoreKey(m) : m \in DOMAIN ScenarioScores} |->
            LET m == CHOOSE x \in DOMAIN ScenarioScores : ScoreKey(x) = key
            IN  ScenarioScores[m][k]]]

\* the batches handed to the aggregator, per task type
AggBatches(task) ==
    CASE task = "content_writing" ->
           UNION {[1..n -> FlatEvaluations(<<"accuracy", "brevity">>)] : n \in 0..MaxEvals}
      [] task = "conversation_evaluation" -> {ScenarioBatch}
      [] task = "code_quality_evaluation" ->
           UNION {[1..n -> FlatEvaluations(<<"readability", "efficiency">>)] : n \in 0..2}
      [] OTHER -> UNION {[1..n -> FlatEvaluations(<<"style">>)] : n \in 0..1}

AggTasks ==
    {"content_writing", "conversation_evaluation", "code_quality_evaluation",
     "style_review", "essay_review"}

InitAgg ==
    /\ PoolsLoaded
    /\ pc = "call"
    /\ task_type \in AggTasks
    /\ all_evaluations \in AggBatches(task_type)
    /\ num_evaluations = Len(all_evaluations)
    /\ aggregated = NoValue
    /\ response = <<>>
    /\ parsed = NoValue
    /\ args = NoValue
    /\ ret = NoValue

\* metrics_calculator.aggregate_scores(all_evaluations, task_type)
AggregateScores ==
    /\ pc = "call"
    /\ aggregated' = aggregate_scores(task_pool, metrics_pool, all_evaluations,
                                      task_type, numpy_empty)
    /\ pc' = "returned"
    /\ UNCHANGED <<task_pool, metrics_pool, numpy_empty, task_type, num_evaluations,
                   all_evaluations, response, parsed, args, ret>>

NextAgg == AggregateScores

SpecAgg == InitAgg /\ [][NextAgg]_vars

-----------------------------------------------------------------------------
(* The score helpers of the two parsers called on their own: a score with  *)
(* a range, or a score with the declared scores of a criteria dict.        *)

\* the largest score, range end and criterion of the calls explored
MaxScore == 6

ScoreValues == (0 - 2)..MaxScore

RangeCalls ==
    {[score |-> s, min_score |-> lo, max_score |-> hi] :
        s \in ScoreValues, lo \in ScoreValues, hi \in ScoreValues}

\* declared criteria: one to three distinct scores in any order
CriteriaLists ==
    {c \in UNION {[1..n -> 0..MaxScore] : n \in 1..3} :
        \A j, k \in 1..Len(c) : j # k => c[j] # c[k]}

CriteriaCalls ==
    {[score |-> s, criteria |-> c] : s \in ScoreValues, c \in CriteriaLists}

InitFn ==
    /\ PoolsLoaded
    /\ pc = "call"
    /\ args \in RangeCalls \cup CriteriaCalls
    /\ ret = NoValue
    /\ task_type = "content_writing"
    /\ num_evaluations = 0
    /\ all_evaluations = <<>>
    /\ aggregated = NoValue
    /\ response = <<>>
    /\ parsed = NoValue

Returns(fn, value) ==
    /\ pc = "call"
    /\ pc' = fn
    /\ ret' = value
    /\ UNCHANGED <<task_pool, metrics_pool, numpy_empty, task_type, num_evaluations,
                   all_evaluations, aggregated, response, parsed, args>>

ValidateScore ==
    /\ "min_score" \in DOMAIN args
    /\ Returns("_validate_score",
               _validate_score(args.score, args.min_score, args.max_score))

AtlasValidateScore ==
    /\ "min_score" \in DOMAIN args
    /\ Returns("atlas_validate_score",
               atlas_validate_score(args.score, args.min_score, args.max_score,
                                    "accuracy", <<>>))

NormalizeScore ==
    /\ "min_score" \in DOMAIN args
    /\ Returns("_normalize_score",
               _normalize_score(args.score, args.min_score, args.max_score))

AtlasNormalizeScore ==
    /\ "min_score" \in DOMAIN args
    /\ Returns("atlas_normalize_score",
               atlas_normalize_score(args.score, args.min_score, args.max_score))

ValidateAgainstCriteria ==
    /\ "criteria" \in DOMAIN args
    /\ Returns("_validate_against_criteria",
               _validate_against_criteria(args.score, args.criteria, "accuracy", <<>>))

NextFn ==
    \/ ValidateScore
    \/ AtlasValidateScore
    \/ NormalizeScore
    \/ AtlasNormalizeScore
    \/ ValidateAgainstCriteria

SpecFn == InitFn /\ [][NextFn]_vars

-----------------------------------------------------------------------------
(* The two parsers called on a judge response.  A response of the judge    *)
(* holds, for each metric of the task in declared order, an optional score *)
(* line and an optional justification line.                                *)

\* the scores the judge writes: inside and outside the ranges, on and
\* between the declared criteria
JudgeScores == {0, 4, 8, 15}

\* the justifications the judge writes: none, a short one, a long one
JudgeTexts == {"", "ok", "a clear and accurate answer"}

ScoreLineChoices(metric) ==
    {<<>>, <<BadScoreLine(metric)>>} \cup {<<ScoreLine(metric, v)>> : v \in JudgeScores}

JustificationLineChoices(metric) ==
    {<<>>} \cup {<<JustificationLine(metric, t)>> : t \in JudgeTexts}

RECURSIVE ResponseLines(_)
ResponseLines(metrics) ==
    IF metrics = <<>> THEN {<<>>}
    ELSE {s \o j \o rest : s \in ScoreLineChoices(Head(metrics)),
                           j \in JustificationLineChoices(Head(metrics)),
                           rest \in ResponseLines(Tail(metrics))}

ParseTasks ==
    {"content_writing", "code_quality_evaluation", "tone_review", "style_review",
     "essay_review"}

\* the metrics the judge was asked about
AskedMetrics(task) ==
    IF task \in DOMAIN TaskPoolFile.task_types
    THEN WeightKeys(TaskPoolFile.task_types[task].weightages)
    ELSE <<"accuracy">>

JudgeResponses(task) ==
    {JsonObject} \cup
    {[str |-> TRUE, lines |-> l, trailing_ws |-> w] :
        l \in ResponseLines(AskedMetrics(task)), w \in BOOLEAN}

InitParse ==
    /\ PoolsLoaded
    /\ pc = "call"
    /\ task_type \in ParseTasks
    /\ response \in JudgeResponses(task_type)
    /\ args \in {[include_justification |-> b] : b \in BOOLEAN}
    /\ parsed = NoValue
    /\ ret = NoValue
    /\ num_evaluations = 0
    /\ all_evaluations = <<>>
    /\ aggregated = NoValue

\* LLMResponseParser().parse_evaluation_response(response, task_type,
\* include_justification) of utils/llm_parser.py
ParseResponse ==
    /\ pc = "call"
    /\ parsed' = parse_evaluation_response(task_pool, metrics_pool, response, task_type,
                                           args.include_justification)
    /\ pc' = "parsed"
    /\ UNCHANGED <<task_pool, metrics_pool, numpy_empty, task_type, num_evaluations,
                   all_evaluations, aggregated, response, args, ret>>

\* LLMResponseParser(config).parse_evaluation_response(response) of
\* atlas/utils/llm_parser.py
AtlasParseResponse ==
    /\ pc = "call"
    /\ parsed' = atlas_parse_evaluation_response(task_pool, metrics_pool, response,
                                                 task_type, args.include_justification)
    /\ pc' = "atlas_parsed"
    /\ UNCHANGED <<task_pool, metrics_pool, numpy_empty, task_type, num_evaluations,
                   all_evaluations, aggregated, response, args, ret>>

NextParse == ParseResponse \/ AtlasParseResponse

SpecParse == InitParse /\ [][NextParse]_vars

-----------------------------------------------------------------------------
(* Evaluator.evaluate from its first sample on (evaluator.py lines 80-106) *)
(* for an Evaluator built with a task type: num_evaluations calls of       *)
(* _get_llm_evaluation, each a judge call and a parse whose result is      *)
(* appended to the batch, then the aggregation, the confidence and the     *)
(* result.  The prompt is taken as given: the call on line 75 passes       *)
(* (task_type, content) to the static generate_prompt(task_type, content,  *)
(* criteria) and raises TypeError before the first sample.                 *)

\* the most samples of an evaluation
MaxSamples == 3

\* the tasks an Evaluator can be built with: get_task_weights raises for
\* any other
SampleTasks == {"content_writing", "tone_review", "style_review"}

\* the texts the judge answers with, per task
SampleTexts(task) ==
    CASE task = "content_writing" ->
           {<<ScoreLine("accuracy", v), ScoreLine("brevity", 2)>> : v \in {8, 9, 10}}
           \cup {<<ScoreLine("accuracy", 15)>>}
      [] task = "tone_review" ->
           {<<ScoreLine("tone", 5), ScoreLine("presence", 5)>>, <<>>}
      [] OTHER ->
           {<<ScoreLine("style", 4)>>}

\* what generate_response returns: the parsed JSON body, a str or not
JudgeReturns(task) == {JsonObject} \cup {TextResponse(l) : l \in SampleTexts(task)}

InitSamples ==
    /\ PoolsLoaded
    /\ pc = "sampling"
    /\ task_type \in SampleTasks
    /\ num_evaluations \in 0..MaxSamples
    /\ all_evaluations = <<>>
    /\ aggregated = NoValue
    /\ response = <<>>
    /\ parsed = <<>>
    /\ args = NoValue
    /\ ret = NoValue

\* the failure is swallowed: a sample of zero scores takes its place and
\* the loop goes on
Fails_zeroed(exception) ==
    /\ all_evaluations' = Append(all_evaluations,
                                 [raw_scores |-> EmptyDict, normalized_scores |-> EmptyDict,
                                  validation_issues |-> <<>>, total_weighted_score |-> R(0)])
    /\ UNCHANGED <<pc, ret, aggregated>>

\* evaluate raises: the exception leaves the call
Fails(exception) ==
    /\ pc' = "failed"
    /\ ret' = exception
    /\ UNCHANGED <<all_evaluations, aggregated>>

\* one pass of the loop whose judge call returns: _get_llm_evaluation parses
\* the response (an exception of the parser is raised again) and evaluate
\* appends the sample; response and parsed keep what the judge returned and
\* what the parser made of it, sample by sample
GetLLMEvaluation ==
    /\ pc = "sampling"
    /\ Len(all_evaluations) < num_evaluations
    /\ \E r \in JudgeReturns(task_type) :
          /\ response' = Append(response, r)
          /\ parsed' = Append(parsed,
                 parse_evaluation_response(task_pool, metrics_pool, r, task_type, TRUE))
          /\ IF IsExc(parse_evaluation_response(task_pool, metrics_pool, r, task_type, TRUE))
             THEN Fails(parse_evaluation_response(task_pool, metrics_pool, r, task_type, TRUE))
             ELSE /\ all_evaluations' = Append(all_evaluations,
                        parse_evaluation_response(task_pool, metrics_pool, r,
                                                  task_type, TRUE).val)
                  /\ UNCHANGED <<pc, ret, aggregated>>
    /\ UNCHANGED <<task_pool, metrics_pool, numpy_empty, task_type, num_evaluations, args>>

\* one pass of the loop whose judge call raises: generate_response raises
\* for a status other than 200 and for a network error, and
\* _get_llm_evaluation raises it again
JudgeFails ==
    /\ pc = "sampling"
    /\ Len(all_evaluations) < num_evaluations
    /\ Fails(Raise("Exception"))
    /\ UNCHANGED <<task_pool, metrics_pool, numpy_empty, task_type, num_evaluations,
                   response, parsed, args>>

\* the result dict of lines 92-106 (without timestamp and model name)
EvaluationResult(agg, confidence) ==
    IF IsExc(confidence) THEN confidence
    ELSE Ok([final_score |-> Round2(agg.total_weighted_score),
             confidence |-> confidence.val[1],
             reliability |-> confidence.val[2],
             metric_scores |-> agg,
             evaluation_metadata |->
                 [num_evaluations |-> num_evaluations,
                  weightages |-> task_pool.task_types[task_type].weightages,
                  task_type |-> task_type]])

\* lines 84-106 once the loop has ended: aggregate_scores, then
\* calculate_confidence_and_reliability, then the result
Aggregate ==
    /\ pc = "sampling"
    /\ Len(all_evaluations) = num_evaluations
    /\ aggregated' = aggregate_scores(task_pool, metrics_pool, all_evaluations,
                                      task_type, numpy_empty)
    /\ IF IsExc(aggregated')
       THEN pc' = "failed" /\ ret' = aggregated'
       ELSE /\ ret' = EvaluationResult(aggregated'.val,
                          calculate_confidence_and_reliability(
                              task_pool, metrics_pool, all_evaluations, task_type))
            /\ pc' = IF IsExc(ret') THEN "failed" ELSE "done"
    /\ UNCHANGED <<task_pool, metrics_pool, numpy_empty, task_type, num_evaluations,
                   all_evaluations, response, parsed, args>>

NextSamples == GetLLMEvaluation \/ JudgeFails \/ Aggregate

SpecSamples == InitSamples /\ [][NextSamples]_vars

-----------------------------------------------------------------------------
(* Claims about the aggregator                                             *)

AggReturned == pc = "returned" /\ Returned(aggregated)

\* the entry of a metric in what aggregate_scores returned
Entry(m) == aggregated.val.metrics[m]

\* the k-th smallest (k from 0) of a list of integers, by counting
OrderStat(s, k) ==
    CHOOSE v \in {s[i] : i \in 1..Len(s)} :
        /\ Cardinality({i \in 1..Len(s) : s[i] < v}) <= k
        /\ Cardinality({i \in 1..Len(s) : s[i] <= v}) > k

\* four times the quartile p/4 (p = 1 or 3) of s by linear interpolation
\* between the order statistics around the position (n-1)*p/4
Quartile4(s, p) ==
    LET pos == (Len(s) - 1) * p
        lo  == pos \div 4
        r   == pos % 4
    IN  IF r = 0 THEN 4 * OrderStat(s, lo)
        ELSE 4 * OrderStat(s, lo) + r * (OrderStat(s, lo + 1) - OrderStat(s, lo))

\* Q1 - 1.5*IQR <= x <= Q3 + 1.5*IQR, everything multiplied by 8
InsideFences(s, x) ==
    LET q1 == Quartile4(s, 1)
        q3 == Quartile4(s, 3)
    IN  /\ 2 * q1 - 3 * (q3 - q1) <= 8 * x
        /\ 8 * x <= 2 * q3 + 3 * (q3 - q1)

SpecFiltered(raw) ==
    LET Keep(x) == InsideFences(raw, x) IN SelectSeq(raw, Keep)

\* C1: for every metric with a non-empty list of raw scores, filtered_scores
\* is the raw scores, in order, that lie within [Q1 - 1.5*IQR, Q3 + 1.5*IQR],
\* Q1 and Q3 the interpolated quartiles of the raw scores; the raw scores
\* [23,24,22,25,15] give Q1 = 22, Q3 = 24, fences [19,27], filtered
\* [23,24,22,25] and median 23.5.
C1_FilteredWithinFences ==
    AggReturned =>
      \A m \in DOMAIN aggregated.val.metrics :
        Entry(m).raw_scores # <<>> =>
          /\ Entry(m).filtered_scores = SpecFiltered(Entry(m).raw_scores)
          /\ Entry(m).raw_scores = <<23, 24, 22, 25, 15>> =>
               /\ Percentile(Entry(m).raw_scores, 25) = R(22)
               /\ Percentile(Entry(m).raw_scores, 75) = R(24)
               /\ IQRFences(Entry(m).raw_scores) = [lower |-> R(19), upper |-> R(27)]
               /\ Entry(m).filtered_scores = <<23, 24, 22, 25>>
               /\ Entry(m).score = Rat(47, 2)

\* the scenario has been aggregated and its outlier 15 removed
C1_Witness ==
    /\ AggReturned
    /\ task_type = "conversation_evaluation"
    /\ Entry("coherence").raw_scores = <<23, 24, 22, 25, 15>>
    /\ Len(Entry("coherence").filtered_scores) = 4

\* the metrics of the task for which at least one evaluation of the batch
\* holds a score, in rubric order
ScoredMetrics ==
    LET HasScore(m) == \E k \in 1..Len(all_evaluations) :
                          ScoreKey(m) \in DOMAIN all_evaluations[k]
    IN  SelectSeq(WeightKeys(task_pool.task_types[task_type].weightages), HasScore)

SumWeighted(ms) == SumR([k \in 1..Len(ms) |-> Entry(ms[k]).weighted_score])
SumWeights(ms) == SumR([k \in 1..Len(ms) |-> Entry(ms[k]).weight])

\* C4: total_weighted_score is the sum of the weighted contributions of the
\* metrics actually scored divided by the sum of their weights; a metric with
\* no score in any evaluation enters neither sum.
C4_TotalOverScoredWeights ==
    (AggReturned /\ ScoredMetrics # <<>>) =>
        aggregated.val.total_weighted_score =
            RDiv(SumWeighted(ScoredMetrics), SumWeights(ScoredMetrics))

\* C5: when no score of a metric is left after filtering, the entry records
\* a validation issue for the metric and its score is not a default: it is
\* the median of the raw scores.
C5_EmptyFilterFallsBack ==
    AggReturned =>
      \A m \in DOMAIN aggregated.val.metrics :
        Entry(m).filtered_scores = <<>> =>
          /\ "validation_issues" \in DOMAIN Entry(m)
          /\ Entry(m).raw_scores # <<>>
          /\ Entry(m).score = Median(Entry(m).raw_scores)

-----------------------------------------------------------------------------
(* Claims about the score helpers                                          *)

Normalized == pc \in {"_normalize_score", "atlas_normalize_score"}

\* what the formula (score - min) / (max - min) gives, stated on the
\* numerator and denominator of the returned value
IsQuotient(value, score, lo, hi) == value[1] * (hi - lo) = (score - lo) * value[2]

InUnitInterval(value) == RLe(R(0), value) /\ RLe(value, R(1))

\* what the claim states for every range but min = max
NormalizeOnRange ==
    /\ args.score = args.max_score => ret = R(1)
    /\ args.max_score # args.min_score =>
           IsQuotient(ret, args.score, args.min_score, args.max_score)
    /\ args.max_score = args.min_score =>
           ret = (IF args.score >= args.max_score THEN R(1) ELSE R(0))
    /\ (args.min_score <= args.score /\ args.score <= args.max_score) =>
           InUnitInterval(ret)

\* C10 as stated: for every score_range with min <= max, normalize(min) = 0
\* and normalize(max) = 1, the result is (score - min) / (max - min) when
\* max # min and 1.0 if score >= max else 0.0 when max = min, and it lies in
\* [0,1] for every score in [min,max].
C10_NormalizeAsStated ==
    (Normalized /\ args.min_score <= args.max_score) =>
        /\ args.score = args.min_score => ret = R(0)
        /\ NormalizeOnRange

\* C10 amended: normalize(min) = 0 holds for min < max only; for min = max
\* the one score of the range normalizes to 1.
C10_NormalizeAmended ==
    (Normalized /\ args.min_score <= args.max_score) =>
        /\ (args.score = args.min_score /\ args.min_score < args.max_score) =>
               ret = R(0)
        /\ NormalizeOnRange

C10_Witness ==
    /\ pc = "_normalize_score"
    /\ args.min_score = args.max_score
    /\ args.score = args.min_score
    /\ ret = R(1)

-----------------------------------------------------------------------------
(* Claims about the parsers                                                *)

\* a parser has returned a sample for a response that is a text
SampleReturned == pc \in {"parsed", "atlas_parsed"} /\ Returned(parsed) /\ response.str

\* the metrics of the task that are defined with a complete score_range
RangedMetrics ==
    {m \in {AskedMetrics(task_type)[k] : k \in 1..Len(AskedMetrics(task_type))} :
        /\ FindMetric(metrics_pool, m) # {}
        /\ "score_range" \in DOMAIN TheOne(FindMetric(metrics_pool, m))
        /\ {"min", "max"} \subseteq DOMAIN TheOne(FindMetric(metrics_pool, m)).score_range}

RangeFor(m) == TheOne(FindMetric(metrics_pool, m)).score_range

HasCriteria(m) == "scoring_criteria" \in DOMAIN TheOne(FindMetric(metrics_pool, m))

CriteriaFor(m) ==
    {TheOne(FindMetric(metrics_pool, m)).scoring_criteria[k] :
        k \in 1..Len(TheOne(FindMetric(metrics_pool, m)).scoring_criteria)}

\* the response has a score line tagged with the metric
HasScoreLine(m) ==
    \E k \in 1..Len(response.lines) :
        response.lines[k].kind = "SCORE" /\ response.lines[k].tag = m

\* the number of the first score line of the metric that carries one
HasNumber(m) ==
    \E k \in 1..Len(response.lines) :
        /\ response.lines[k].kind = "SCORE"
        /\ response.lines[k].tag = m
        /\ response.lines[k].num

NumberOf(m) ==
    response.lines[CHOOSE k \in 1..Len(response.lines) :
        /\ response.lines[k].kind = "SCORE"
        /\ response.lines[k].tag = m
        /\ response.lines[k].num
        /\ \A j \in 1..(k - 1) :
              ~(response.lines[j].kind = "SCORE" /\ response.lines[j].tag = m
                /\ response.lines[j].num)].val

HasIssue(m) ==
    \E k \in 1..Len(parsed.val.validation_issues) :
        parsed.val.validation_issues[k].metric = m

HasIssueWorded(m, wording) ==
    \E k \in 1..Len(parsed.val.validation_issues) :
        /\ parsed.val.validation_issues[k].metric = m
        /\ parsed.val.validation_issues[k].issue = wording

Clamped(x, range) ==
    IF x < range.min THEN range.min ELSE IF x > range.max THEN range.max ELSE x

\* the defined value nearest to x, the lower one of two equally near
NearestLower(defined, x) ==
    CHOOSE v \in defined :
        \A w \in defined :
            \/ Abs(v - x) < Abs(w - x)
            \/ (Abs(v - x) = Abs(w - x) /\ v <= w)

\* C7: when the response has no score line for a metric, the sample is
\* still returned, it records a validation issue for the metric, and the
\* metric's score is the minimum of its score_range.
C7_MissingScoreIsRecorded ==
    (pc \in {"parsed", "atlas_parsed"} /\ response.str
        /\ task_type \in DOMAIN task_pool.task_types) =>
        /\ Returned(parsed)
        /\ \A m \in RangedMetrics :
              ~HasScoreLine(m) =>
                  /\ HasIssue(m)
                  /\ m \in DOMAIN parsed.val.raw_scores
                  /\ parsed.val.raw_scores[m] = RangeFor(m).min

\* C8: the stored raw score is the extracted score clamped to the metric's
\* score_range, and a validation issue is recorded for the metric whenever
\* the extracted score was outside the range (for the parser that also
\* validates against criteria: on the metrics that define none).
C8_ClampedWithIssue ==
    SampleReturned =>
        \A m \in RangedMetrics :
            (HasNumber(m) /\ (pc = "parsed" \/ ~HasCriteria(m))) =>
                /\ m \in DOMAIN parsed.val.raw_scores
                /\ parsed.val.raw_scores[m] = Clamped(NumberOf(m), RangeFor(m))
                /\ Clamped(NumberOf(m), RangeFor(m)) # NumberOf(m) => HasIssue(m)

\* C9: for a metric with declared criteria the stored score is the score
\* clamped to the range and then moved to the nearest declared value, the
\* lower one of two equally near, whatever the order of declaration; an
\* issue about the criteria is recorded exactly when the clamped score was
\* not a declared value.
C9_ClampThenSnapLower ==
    (SampleReturned /\ pc = "atlas_parsed") =>
        \A m \in RangedMetrics :
            (HasNumber(m) /\ HasCriteria(m) /\ CriteriaFor(m) # {}) =>
                /\ parsed.val.raw_scores[m] =
                       NearestLower(CriteriaFor(m), Clamped(NumberOf(m), RangeFor(m)))
                /\ HasIssueWorded(m, "not in valid scores") <=>
                       Clamped(NumberOf(m), RangeFor(m)) \notin CriteriaFor(m)

-----------------------------------------------------------------------------
(* Claims about the evaluation                                             *)

Finished == pc \in {"done", "failed"}

\* the parser scored the metric in every sample of the batch
ScoredInEverySample(m) ==
    \A k \in 1..Len(all_evaluations) : m \in DOMAIN all_evaluations[k].raw_scores

\* the scores the parser produced for the metric, in sample order
ParserScores(m) ==
    [k \in 1..Len(all_evaluations) |-> all_evaluations[k].raw_scores[m]]

EndToEndSamples ==
    [k \in 1..3 |-> TextResponse(<<ScoreLine("accuracy", k + 7), ScoreLine("brevity", 2)>>)]

-----------------------------------------------------------------------------
(* Claims about the aggregate of a metric                                  *)

\* the metric is defined with a score_range that has both ends
HasRange(m) ==
    /\ FindMetric(metrics_pool, m) # {}
    /\ "score_range" \in DOMAIN TheOne(FindMetric(metrics_pool, m))
    /\ {"min", "max"} \subseteq DOMAIN TheOne(FindMetric(metrics_pool, m)).score_range

\* value = (median - min) / (max - min), stated without division
IsNormalizedMedian(value, median, range) ==
    RMul(value, R(range.max - range.min)) = RSub(median, R(range.min))

\* every raw score of the metric is inside its score_range
ScoresInRange(m) ==
    \A k \in 1..Len(Entry(m).raw_scores) :
        /\ RangeFor(m).min <= Entry(m).raw_scores[k]
        /\ Entry(m).raw_scores[k] <= RangeFor(m).max

\* C11: the normalized_score of a metric's aggregate lies in [0,1] and is
\* the median score normalized over the metric's score_range,
\* (median - min) / (max - min); stated for the batches whose scores are
\* inside the range.
C11_NormalizedOverRange ==
    AggReturned =>
        \A m \in DOMAIN aggregated.val.metrics :
            (HasRange(m) /\ Entry(m).raw_scores # <<>>
                /\ RangeFor(m).min < RangeFor(m).max /\ ScoresInRange(m)) =>
                /\ InUnitInterval(Entry(m).normalized_score)
                /\ IsNormalizedMedian(Entry(m).normalized_score, Entry(m).score,
                                      RangeFor(m))

-----------------------------------------------------------------------------
(* Claims about the failure of one metric in a response                    *)

\* the task type is one of the task pool
Registered == task_type \in DOMAIN task_pool.task_types

ParserReturned == pc \in {"parsed", "atlas_parsed"}

\* the parser that ran, applied to another response
ParsedBy(r) ==
    IF pc = "parsed"
    THEN parse_evaluation_response(task_pool, metrics_pool, r, task_type,
                                   args.include_justification)
    ELSE atlas_parse_evaluation_response(task_pool, metrics_pool, r, task_type,
                                         args.include_justification)

\* the response has a justification line of the metric that carries text
HasJustificationText(r, m) ==
    \E k \in 1..Len(r.lines) :
        /\ r.lines[k].kind = "JUSTIFICATION"
        /\ r.lines[k].tag = m
        /\ r.lines[k].text # ""

\* the metric's score, or its justification when one is asked for, cannot
\* be parsed from the response
FailsToParse(m) ==
    \/ ~HasNumber(m)
    \/ args.include_justification /\ ~HasJustificationText(response, m)

PositionOf(m) ==
    CHOOSE k \in 1..Len(AskedMetrics(task_type)) : AskedMetrics(task_type)[k] = m

LinesBefore(m) ==
    SelectSeq(response.lines, LAMBDA l : PositionOf(l.tag) < PositionOf(m))

LinesAfter(m) ==
    SelectSeq(response.lines, LAMBDA l : PositionOf(l.tag) > PositionOf(m))

\* the responses that differ from the parsed one only in the metric's lines,
\* which are a score line with a number and a justification with text
Repaired(m) ==
    {[response EXCEPT !.lines = LinesBefore(m)
                                \o <<ScoreLine(m, v), JustificationLine(m, "ok")>>
                                \o LinesAfter(m)] :
        v \in JudgeScores}

SameEntry(d, e, m) ==
    /\ m \in DOMAIN d <=> m \in DOMAIN e
    /\ m \in DOMAIN d => d[m] = e[m]

\* the metric has the same scores in both samples, and the same
\* justification when the response carries one for it
SameMetric(a, b, m) ==
    /\ SameEntry(a.raw_scores, b.raw_scores, m)
    /\ SameEntry(a.normalized_scores, b.normalized_scores, m)
    /\ (args.include_justification /\ HasJustificationText(response, m)) =>
           SameEntry(a.justifications, b.justifications, m)

OtherMetrics(m) ==
    {AskedMetrics(task_type)[k] : k \in 1..Len(AskedMetrics(task_type))} \ {m}

\* the other sample was returned with the same entries for every metric but m
OthersAsIn(other, m) ==
    /\ Returned(other)
    /\ \A o \in OtherMetrics(m) : SameMetric(parsed.val, other.val, o)

C13_MissingJustificationIsRecorded ==
    (ParserReturned /\ Registered /\ response.str /\ args.include_justification) =>
        /\ Returned(parsed)
        /\ \A m \in RangedMetrics :
              (HasNumber(m) /\ ~HasJustificationText(response, m)) =>
                  /\ m \in DOMAIN parsed.val.justifications
                  /\ parsed.val.justifications[m] = NoJustification
                  /\ HasIssue(m)

-----------------------------------------------------------------------------
(* PromptGenerator of the atlas package (src/atlas/evaluator/              *)
(* prompt_generator.py) and a judge that follows its output format.  Of    *)
(* the prompt the model keeps the format section: the tagged lines asked   *)
(* for, in order, each tag written as the metric name it upper-cases.      *)

\* lines 54-56 for one metric
FormatLines(metric, include_justification) ==
    IF include_justification
    THEN <<[tag |-> metric, kind |-> "SCORE"], [tag |-> metric, kind |-> "JUSTIFICATION"]>>
    ELSE <<[tag |-> metric, kind |-> "SCORE"]>>

\* for metric in task_config["weightages"].keys()
RECURSIVE FormatSection(_, _)
FormatSection(metrics, include_justification) ==
    IF metrics = <<>> THEN <<>>
    ELSE FormatLines(Head(metrics), include_justification)
         \o FormatSection(Tail(metrics), include_justification)

\* generate_prompt(content): get_task_config raises ValueError for a task
\* type that is not in the pool, re-raised as ValueError
generate_prompt(tp, task, include_justification) ==
    IF task \notin DOMAIN tp.task_types THEN Raise("ValueError")
    ELSE Ok([system_prompt |-> tp.task_types[task].system_prompt,
             format |-> FormatSection(WeightKeys(tp.task_types[task].weightages),
                                      include_justification)])

\* the rubrics of the round trip: every metric is defined, its score_range,
\* when it has one, has both ends
RoundTripTasks == {"content_writing", "code_quality_evaluation", "fact_check"}

\* the scores of a metric that are in its range and, when it has criteria,
\* defined by them
InjectableScores(metric_config) ==
    IF "scoring_criteria" \in DOMAIN metric_config
    THEN {metric_config.scoring_criteria[k] :
             k \in 1..Len(metric_config.scoring_criteria)}
         \cap (ScoreRangeOf(metric_config).min .. ScoreRangeOf(metric_config).max)
    ELSE ScoreRangeOf(metric_config).min .. ScoreRangeOf(metric_config).max

MetricSet(task) == {AskedMetrics(task)[k] : k \in 1..Len(AskedMetrics(task))}

ScoreAssignments(task) ==
    {f \in [MetricSet(task) -> 0..25] :
        \A m \in MetricSet(task) :
            f[m] \in InjectableScores(TheOne(FindMetric(MetricsPoolFile, m)))}

\* the line of the response for one line of the format
Filled(line, scores) ==
    IF line.kind = "SCORE" THEN ScoreLine(line.tag, scores[line.tag])
    ELSE JustificationLine(line.tag, "a clear and accurate answer")

InitRoundTrip ==
    /\ PoolsLoaded
    /\ pc = "start"
    /\ task_type \in RoundTripTasks
    /\ args \in {[include_justification |-> b, scores |-> f] :
                    b \in BOOLEAN, f \in ScoreAssignments(task_type)}
    /\ response = NoValue
    /\ parsed = NoValue
    /\ ret = NoValue
    /\ num_evaluations = 0
    /\ all_evaluations = <<>>
    /\ aggregated = NoValue

\* PromptGenerator(config).generate_prompt(content)
GeneratePrompt ==
    /\ pc = "start"
    /\ ret' = generate_prompt(task_pool, task_type, args.include_justification)
    /\ pc' = "prompted"
    /\ UNCHANGED <<task_pool, metrics_pool, numpy_empty, task_type, num_evaluations,
                   all_evaluations, aggregated, response, parsed, args>>

\* the judge answers with the lines of the prompt's format, a number in
\* place of each score
FollowFormat ==
    /\ pc = "prompted"
    /\ Returned(ret)
    /\ response' = TextResponse([k \in 1..Len(ret.val.format) |->
                                    Filled(ret.val.format[k], args.scores)])
    /\ pc' = "call"
    /\ UNCHANGED <<task_pool, metrics_pool, numpy_empty, task_type, num_evaluations,
                   all_evaluations, aggregated, parsed, args, ret>>

NextRoundTrip == GeneratePrompt \/ FollowFormat \/ ParseResponse \/ AtlasParseResponse

SpecRoundTrip == InitRoundTrip /\ [][NextRoundTrip]_vars

\* C14: a response that follows the prompt's output format, with an
\* in-range (and, where criteria exist, defined) score on each metric's
\* score line, is parsed into exactly those scores.
C14_RoundTrip ==
    (ParserReturned /\ Returned(parsed)) =>
        \A m \in MetricSet(task_type) :
            /\ m \in DOMAIN parsed.val.raw_scores
            /\ parsed.val.raw_scores[m] = args.scores[m]

-----------------------------------------------------------------------------
(* calculate_confidence_and_reliability called on batches of flat          *)
(* evaluations, every metric of the task scored in each                    *)

\* the most evaluations of a batch whose confidence is computed
MaxBatch == 3

ConfScores(metric) ==
    CASE metric = "accuracy"    -> {0, 9, 10}
      [] metric = "brevity"     -> {2}
      [] metric = "readability" -> {1, 3, 5}
      [] OTHER                  -> {1}

\* the evaluations that score every metric
RECURSIVE FullEvaluations(_)
FullEvaluations(metrics) ==
    IF metrics = <<>> THEN {EmptyDict}
    ELSE {DictSet(e, ScoreKey(Head(metrics)), v) :
             e \in FullEvaluations(Tail(metrics)), v \in ConfScores(Head(metrics))}

\* an evaluation of the conversation rubric with the best score of every
\* metric, and one with 0 everywhere
ConversationTop ==
    [coherence_score |-> 25, relevance_score |-> 25, helpfulness_score |-> 25,
     context_awareness_score |-> 15, consistency_score |-> 10]

ConversationZero ==
    [coherence_score |-> 0, relevance_score |-> 0, helpfulness_score |-> 0,
     context_awareness_score |-> 0, consistency_score |-> 0]

ConfBatches(task) ==
    CASE task = "content_writing" ->
           UNION {[1..n -> FullEvaluations(<<"accuracy", "brevity">>)] : n \in 0..MaxBatch}
      [] task = "readability_review" ->
           UNION {[1..n -> FullEvaluations(<<"readability">>)] : n \in 0..MaxBatch}
      [] task = "conversation_evaluation" ->
           {ScenarioBatch} \cup
           UNION {[1..n -> {ConversationTop, ConversationZero}] : n \in 0..2}
      [] OTHER -> UNION {[1..n -> FullEvaluations(<<"style">>)] : n \in 0..2}

ConfTasks ==
    {"content_writing", "readability_review", "conversation_evaluation", "style_review",
     "essay_review"}

InitConf ==
    /\ PoolsLoaded
    /\ pc = "call"
    /\ task_type \in ConfTasks
    /\ all_evaluations \in ConfBatches(task_type)
    /\ num_evaluations = Len(all_evaluations)
    /\ aggregated = NoValue
    /\ response = <<>>
    /\ parsed = NoValue
    /\ args = NoValue
    /\ ret = NoValue

\* metrics_calculator.calculate_confidence_and_reliability(all_evaluations,
\* task_type)
CalculateConfidence ==
    /\ pc = "call"
    /\ ret' = calculate_confidence_and_reliability(task_pool, metrics_pool,
                                                   all_evaluations, task_type)
    /\ pc' = "returned"
    /\ UNCHANGED <<task_pool, metrics_pool, numpy_empty, task_type, num_evaluations,
                   all_evaluations, aggregated, response, parsed, args>>

NextConf == CalculateConfidence

SpecConf == InitConf /\ [][NextConf]_vars

-----------------------------------------------------------------------------
(* Claims about confidence and reliability                                 *)

ConfidenceReturned == pc = "returned" /\ Returned(ret)

\* the sample variance of each metric's scores in the batch, for the
\* metrics with at least two samples
MetricVariances(batch) ==
    IF Len(batch) < 2 THEN <<>>
    ELSE [k \in 1..Len(AskedMetrics(task_type)) |->
             Variance([j \in 1..Len(batch) |->
                          DictGet(batch[j], ScoreKey(AskedMetrics(task_type)[k]), 0)])]

MeanVariance(batch) ==
    IF MetricVariances(batch) = <<>> THEN R(0) ELSE Mean(MetricVariances(batch))

\* C15: the confidence returned for a batch is 1 / (1 + mean of the
\* per-metric variances over the metrics with at least 2 samples), and it is
\* above 0 and at most 1.
C15_ConfidenceFromMeanVariance ==
    ConfidenceReturned =>
        /\ RMul(ret.val[1], RAdd(R(1), MeanVariance(all_evaluations))) = R(1)
        /\ RLt(R(0), ret.val[1])
        /\ RLe(ret.val[1], R(1))

\* the confidence returned for another batch of the same task
ConfidenceOf(batch) ==
    calculate_confidence_and_reliability(task_pool, metrics_pool, batch, task_type)

\* the other batch gets a confidence, strictly smaller than the one returned
StrictlyLessConfident(other) ==
    /\ Returned(other)
    /\ RLt(other.val[1], ret.val[1])

\* C16: of two batches of the same task whose mean per-metric variances
\* differ, the one with the larger mean variance gets the strictly smaller
\* confidence.
C16_ConfidenceStrictlyDecreases ==
    ConfidenceReturned =>
        \A batch \in ConfBatches(task_type) :
            RLt(MeanVariance(all_evaluations), MeanVariance(batch)) =>
                StrictlyLessConfident(ConfidenceOf(batch))

\* the largest score_range width among the task's metrics
Widths ==
    {RangeFor(AskedMetrics(task_type)[k]).max - RangeFor(AskedMetrics(task_type)[k]).min :
        k \in 1..Len(AskedMetrics(task_type))}

LargestWidth == CHOOSE w \in Widths : \A v \in Widths : v <= w

\* the standard deviation of every metric is a rational number
ExactDeviations ==
    \A k \in 1..Len(MetricVariances(all_evaluations)) :
        RMul(RSqrt(MetricVariances(all_evaluations)[k]),
             RSqrt(MetricVariances(all_evaluations)[k]))
            = MetricVariances(all_evaluations)[k]

MeanDeviation ==
    IF MetricVariances(all_evaluations) = <<>> THEN R(0)
    ELSE Mean([k \in 1..Len(MetricVariances(all_evaluations)) |->
                  RSqrt(MetricVariances(all_evaluations)[k])])

\* C17: the reliability returned is 1 - mean(stdev) / max_possible_stdev
\* with max_possible_stdev the largest (max - min) width of the score_range
\* of the task's metrics.
C17_DivisorIsLargestWidth ==
    (ConfidenceReturned /\ MetricSet(task_type) \subseteq RangedMetrics
        /\ ExactDeviations /\ LargestWidth > 0) =>
        ret.val[2] = Round2(RSub(R(1), RDiv(MeanDeviation, R(LargestWidth))))

-----------------------------------------------------------------------------
(* Two aggregations of one batch by one MetricsCalculator, as lines 84-91  *)
(* of evaluate call it: aggregate_scores, then                             *)
(* calculate_confidence_and_reliability, on the list the first call was    *)
(* given                                                                   *)

\* the batch with every missing key stored with the default 0
AfterReading_setdefault(evaluations, metrics) ==
    [k \in 1..Len(evaluations) |->
        [key \in DOMAIN evaluations[k] \cup {ScoreKey(metrics[j]) : j \in 1..Len(metrics)} |->
            DictGet(evaluations[k], key, 0)]]

\* the batch after eval.get(score_key, 0) and eval.get(justification_key, "")
\* for each of the metrics (lines 40, 68-69): dict.get returns the default
\* without storing it, and the lists built are new ones
AfterReading(evaluations, metrics) == evaluations

\* the metrics the loops run over: get_metrics_for_task raises before any
\* read for a task type that is not in the pool
MetricsRead(tp, task) ==
    IF task \in DOMAIN tp.task_types THEN WeightKeys(tp.task_types[task].weightages)
    ELSE <<>>

\* what the two calls of lines 84-91 return
Aggregation(tp, mp, evaluations, task, np_empty) ==
    [aggregated_scores |-> aggregate_scores(tp, mp, evaluations, task, np_empty),
     confidence |-> calculate_confidence_and_reliability(tp, mp, evaluations, task)]

TwiceTasks ==
    {"content_writing", "code_quality_evaluation", "conversation_evaluation", "essay_review"}

TwiceBatches(task) ==
    IF task = "conversation_evaluation" THEN {ScenarioBatch}
    ELSE IF task = "code_quality_evaluation"
    THEN UNION {[1..n -> FlatEvaluations(<<"readability", "efficiency">>)] : n \in 0..2}
    ELSE UNION {[1..n -> FlatEvaluations(<<"accuracy", "brevity">>)] : n \in 0..MaxBatch}

InitTwice ==
    /\ PoolsLoaded
    /\ pc = "call"
    /\ task_type \in TwiceTasks
    /\ all_evaluations \in TwiceBatches(task_type)
    /\ num_evaluations = Len(all_evaluations)
    /\ aggregated = NoValue
    /\ response = <<>>
    /\ parsed = NoValue
    /\ args = NoValue
    /\ ret = NoValue

\* the first aggregation of the batch
AggregateOnce ==
    /\ pc = "call"
    /\ aggregated' = Aggregation(task_pool, metrics_pool, all_evaluations, task_type,
                                 numpy_empty)
    /\ all_evaluations' = AfterReading(all_evaluations, MetricsRead(task_pool, task_type))
    /\ pc' = "once"
    /\ UNCHANGED <<task_pool, metrics_pool, numpy_empty, task_type, num_evaluations,
                   response, parsed, args, ret>>

\* the second aggregation, of what the first left
AggregateTwice ==
    /\ pc = "once"
    /\ ret' = Aggregation(task_pool, metrics_pool, all_evaluations, task_type, numpy_empty)
    /\ all_evaluations' = AfterReading(all_evaluations, MetricsRead(task_pool, task_type))
    /\ pc' = "twice"
    /\ UNCHANGED <<task_pool, metrics_pool, numpy_empty, task_type, num_evaluations,
                   aggregated, response, parsed, args>>

NextTwice == AggregateOnce \/ AggregateTwice

SpecTwice == InitTwice /\ [][NextTwice]_vars

-----------------------------------------------------------------------------
(* Claims about the judge calls of one evaluation                          *)

\* the aggregator has been called
AggregatorCalled == ~IsNone(aggregated)

\* the exception generate_response raises has left evaluate
JudgeFailed == ret = Raise("Exception")

\* every sample of the batch is what the parser made of a response the
\* judge returned, one sample per response, in order
SamplesAreJudged ==
    /\ Len(response) = Len(all_evaluations)
    /\ Len(parsed) = Len(all_evaluations)
    /\ \A k \in 1..Len(all_evaluations) :
          /\ response[k] \in JudgeReturns(task_type)
          /\ parsed[k] = parse_evaluation_response(task_pool, metrics_pool, response[k],
                                                   task_type, TRUE)
          /\ Returned(parsed[k])
          /\ all_evaluations[k] = parsed[k].val

C20_AggregatesFullBatchOnce ==
    [][aggregated' # aggregated =>
          /\ ~AggregatorCalled
          /\ SamplesAreJudged
          /\ Len(all_evaluations) = num_evaluations
          /\ Len(all_evaluations) >= 1]_vars

-----------------------------------------------------------------------------
(* Claims about the stages of one evaluation                               *)

\* a judge call returns in this step
JudgeCallReturns == Len(response') > Len(response)

\* no response has been parsed yet: the request has not entered parsing
NothingParsed == Len(parsed) = 0

-----------------------------------------------------------------------------
(* ConfigManager (src/config/config_manager.py).  args holds the two pool  *)
(* files as they are on disk, pc the class: whether _instance is set,      *)
(* whether the instance has _initialized set, and which of the attributes  *)
(* task_pool and metrics_pool the instance has; task_pool and metrics_pool *)
(* hold the attributes' values; parsed names the last call, ret its        *)
(* outcome.                                                                *)

\* a file that open() or json.load() raises on
Unreadable(exception) == [unreadable |-> exception]

IsUnreadable(file) == "unreadable" \in DOMAIN file

\* a file json.load() reads into content
Readable(content) == [content |-> content]

\* a task pool whose weights do not add up to 1
UnbalancedTaskPool ==
    [task_types |->
       [ content_writing |->
           [system_prompt |-> "p",
            weightages |-> << W("accuracy", 1, 2), W("brevity", 1, 4) >>] ] ]

TaskPoolFiles ==
    {Unreadable("FileNotFoundError"), Unreadable("JSONDecodeError"),
     Readable(TaskPoolFile), Readable(UnbalancedTaskPool)}

MetricsPoolFiles ==
    {Unreadable("FileNotFoundError"), Unreadable("JSONDecodeError"),
     Readable(MetricsPoolFile)}

\* the class as defined: _instance = None, _initialized = False
ClassDefined == [_instance |-> FALSE, _initialized |-> FALSE, attributes |-> {}]

\* get_task_weights(task_type) on an instance whose task_pool is tp; without
\* the attribute, self.task_pool raises AttributeError
get_task_weights(attributes, tp, task) ==
    IF "task_pool" \notin attributes THEN Raise("AttributeError")
    ELSE IF task \notin DOMAIN tp.task_types THEN Raise("ValueError")
    ELSE Ok(tp.task_types[task].weightages)

\* a lookup that answers an unknown task type with an empty definition
get_task_config_lenient(attributes, tp, task) ==
    IF "task_pool" \notin attributes THEN Raise("AttributeError")
    ELSE IF task \notin DOMAIN tp.task_types THEN Ok([weightages |-> <<>>])
    ELSE Ok(tp.task_types[task])

\* get_task_config(task_type)
get_task_config(attributes, tp, task) ==
    IF "task_pool" \notin attributes THEN Raise("AttributeError")
    ELSE IF task \notin DOMAIN tp.task_types THEN Raise("ValueError")
    ELSE Ok(tp.task_types[task])

\* get_metrics_config(metric_name)
get_metrics_config(attributes, mp, metric_name) ==
    IF "metrics_pool" \notin attributes THEN Raise("AttributeError")
    ELSE IF FindMetric(mp, metric_name) = {} THEN Raise("ValueError")
    ELSE Ok(TheOne(FindMetric(mp, metric_name)))

\* TaskManager.get_task_weights(task_type): the membership test of line 60,
\* then the lookup of the config manager
TaskManager_get_task_weights(attributes, tp, task) ==
    IF "task_pool" \notin attributes THEN Raise("AttributeError")
    ELSE IF task \notin DOMAIN tp.task_types THEN Raise("ValueError")
    ELSE get_task_weights(attributes, tp, task)

LookupTasks == {"content_writing", "fact_check", "essay_review"}

LookupMetrics == {"accuracy", "coherence", "fluency"}

InitConfig ==
    /\ args \in {[task_file |-> t, metrics_file |-> m] :
                    t \in TaskPoolFiles, m \in MetricsPoolFiles}
    /\ pc = ClassDefined
    /\ task_pool = NoValue
    /\ metrics_pool = <<>>
    /\ parsed = NoValue
    /\ ret = NoValue
    /\ numpy_empty = "nan"
    /\ task_type = ""
    /\ num_evaluations = 0
    /\ all_evaluations = <<>>
    /\ aggregated = NoValue
    /\ response = <<>>

Called(name, key) == [call |-> name, key |-> key]

\* _load_configs (lines 22-36) when the task pool cannot be read: the
\* exception is logged and raised again, no attribute is set
LoadFailsAtTaskPool ==
    /\ IsUnreadable(args.task_file)
    /\ ret' = Raise(args.task_file.unreadable)
    /\ pc' = [_instance |-> TRUE, _initialized |-> TRUE, attributes |-> pc.attributes]
    /\ UNCHANGED <<task_pool, metrics_pool>>

\* _load_configs when the metrics pool cannot be read: task_pool is set
LoadFailsAtMetricsPool ==
    /\ ~IsUnreadable(args.task_file)
    /\ IsUnreadable(args.metrics_file)
    /\ task_pool' = args.task_file.content
    /\ ret' = Raise(args.metrics_file.unreadable)
    /\ pc' = [_instance |-> TRUE, _initialized |-> TRUE,
              attributes |-> pc.attributes \cup {"task_pool"}]
    /\ UNCHANGED metrics_pool

\* _load_configs when both files are read: nothing is checked
LoadSucceeds ==
    /\ ~IsUnreadable(args.task_file)
    /\ ~IsUnreadable(args.metrics_file)
    /\ task_pool' = args.task_file.content
    /\ metrics_pool' = args.metrics_file.content
    /\ ret' = Ok("config_manager")
    /\ pc' = [_instance |-> TRUE, _initialized |-> TRUE,
              attributes |-> {"task_pool", "metrics_pool"}]

\* ConfigManager(): __new__ makes the instance when there is none, __init__
\* sets _initialized before it loads, and does nothing when it is set
Construct ==
    /\ parsed' = Called("ConfigManager", "")
    /\ IF pc._initialized
       THEN /\ ret' = Ok("config_manager")
            /\ UNCHANGED <<pc, task_pool, metrics_pool>>
       ELSE LoadFailsAtTaskPool \/ LoadFailsAtMetricsPool \/ LoadSucceeds
    /\ UNCHANGED <<numpy_empty, task_type, num_evaluations, all_evaluations, aggregated,
                   response, args>>

\* a lookup on the instance
Lookup(name, key, outcome) ==
    /\ pc._instance
    /\ parsed' = Called(name, key)
    /\ ret' = outcome
    /\ UNCHANGED <<task_pool, metrics_pool, numpy_empty, pc, task_type, num_evaluations,
                   all_evaluations, aggregated, response, args>>

GetTaskWeights ==
    \E t \in LookupTasks :
        Lookup("get_task_weights", t, get_task_weights(pc.attributes, task_pool, t))

GetTaskConfig ==
    \E t \in LookupTasks :
        Lookup("get_task_config", t, get_task_config(pc.attributes, task_pool, t))

GetMetricsConfig ==
    \E m \in LookupMetrics :
        Lookup("get_metrics_config", m, get_metrics_config(pc.attributes, metrics_pool, m))

TaskManagerGetTaskWeights ==
    \E t \in LookupTasks :
        Lookup("TaskManager.get_task_weights", t,
               TaskManager_get_task_weights(pc.attributes, task_pool, t))

NextConfig ==
    \/ Construct
    \/ GetTaskWeights
    \/ GetTaskConfig
    \/ GetMetricsConfig
    \/ TaskManagerGetTaskWeights

SpecConfig == InitConfig /\ [][NextConfig]_vars

-----------------------------------------------------------------------------
(* Claims about the configuration store                                    *)

\* the last call was a construction that returned the instance
Constructed == "call" \in DOMAIN parsed /\ parsed.call = "ConfigManager" /\ Returned(ret)

\* both pools are loaded
Loaded == pc.attributes = {"task_pool", "metrics_pool"}

WeightsOf(task) ==
    [k \in 1..Len(task_pool.task_types[task].weightages) |->
        task_pool.task_types[task].weightages[k].weight]

\* C22: after a load that succeeded, the weights of every rubric add up to
\* 1 and every metric a rubric names is defined in the metrics pool (a load
\* of files that are otherwise fails).
C22_LoadedRubricsAreValid ==
    (Constructed /\ Loaded) =>
        \A task \in DOMAIN task_pool.task_types :
            /\ SumR(WeightsOf(task)) = R(1)
            /\ \A k \in 1..Len(task_pool.task_types[task].weightages) :
                  FindMetric(metrics_pool,
                             task_pool.task_types[task].weightages[k].metric) # {}


\* the task types and the metrics the files on disk define
TasksOnFile == DOMAIN args.task_file.content.task_types

MetricsOnFile == UNION {DOMAIN args.metrics_file.content[g] :
                           g \in 1..Len(args.metrics_file.content)}

\* the definition of a metric in the first group of the file that has it
MetricOnFile(metric_name) ==
    LET g == CHOOSE g \in 1..Len(args.metrics_file.content) :
                 /\ metric_name \in DOMAIN args.metrics_file.content[g]
                 /\ \A h \in 1..(g - 1) :
                        metric_name \notin DOMAIN args.metrics_file.content[h]
    IN  args.metrics_file.content[g][metric_name]

\* what the claim says a lookup answers, from the files that were loaded
Answer(call) ==
    IF call.call = "get_metrics_config"
    THEN IF call.key \in MetricsOnFile THEN Ok(MetricOnFile(call.key))
         ELSE Raise("ValueError")
    ELSE IF call.key \notin TasksOnFile THEN Raise("ValueError")
    ELSE IF call.call = "get_task_config"
         THEN Ok(args.task_file.content.task_types[call.key])
         ELSE Ok(args.task_file.content.task_types[call.key].weightages)

\* C23: on a loaded store a lookup of an unregistered task type or of an
\* undefined metric raises the unknown-key error, a lookup of a registered
\* key returns the definition that was loaded, and neither changes the
\* store.
C23_LookupFailsFastOrReturnsLoaded ==
    [][(Loaded /\ parsed'.call # "ConfigManager") =>
          /\ ret' = Answer(parsed')
          /\ UNCHANGED <<task_pool, metrics_pool, pc>>]_vars

\* an unregistered task type was looked up on a loaded store and the lookup
\* raised, after a lookup of a registered one returned
C23_Witness ==
    /\ Loaded
    /\ "call" \in DOMAIN parsed
    /\ parsed.call = "get_task_config"
    /\ parsed.key = "essay_review"
    /\ ret = Raise("ValueError")


\* C30: every construction that returns without an exception returns an
\* instance that has both pools loaded, also when an earlier construction
\* failed while loading.
C30_ConstructedIsLoaded == Constructed => Loaded


-----------------------------------------------------------------------------
(* Claims about what the outlier filter leaves                             *)

\* C25: the outlier filter keeps at least one score of every non-empty list
\* of raw scores, so a metric's filtered scores are empty only when the
\* batch is empty.
C25_FilterKeepsAScore ==
    AggReturned =>
      \A m \in DOMAIN aggregated.val.metrics :
        /\ Entry(m).raw_scores # <<>> => Entry(m).filtered_scores # <<>>
        /\ Entry(m).filtered_scores = <<>> => all_evaluations = <<>>

\* a batch of content_writing was aggregated, the filter removed a score of
\* accuracy and kept the others
C25_Witness ==
    /\ AggReturned
    /\ task_type = "content_writing"
    /\ Len(Entry("accuracy").filtered_scores) < Len(Entry("accuracy").raw_scores)
    /\ Len(Entry("accuracy").filtered_scores) >= 1


\* the variance of the k-th metric that enters the confidence of the batch
ConfidenceVariance(k) == VariancesOf(all_evaluations, MetricsRead(task_pool, task_type))[k]

\* the variance the aggregate reports for the k-th metric
ReportedVariance(k) ==
    aggregated.aggregated_scores.val.metrics[MetricsRead(task_pool, task_type)[k]].variance

\* C26: for a batch of at least 2 samples the variance of every metric that
\* enters the confidence is the variance the aggregate reports for the
\* metric.
C26_OneVariancePerMetric ==
    (/\ pc # "call"
     /\ ~IsExc(aggregated.aggregated_scores)
     /\ ~IsExc(aggregated.confidence)
     /\ Len(all_evaluations) >= 2) =>
        \A k \in 1..Len(MetricsRead(task_pool, task_type)) :
            ConfidenceVariance(k) = ReportedVariance(k)


-----------------------------------------------------------------------------
(* TaskManager (src/evaluator/task_manager.py) and TaskIdentifier           *)
(* (src/utils/task_identifier.py) over the loaded task pool.  pc is the     *)
(* class TaskManager, a record with its attribute _default_task_type;       *)
(* response is what the judge answered to the last identification, parsed   *)
(* the last call and ret its outcome.  A response text is a sequence of     *)
(* pieces, words or punctuation; no task name of the pool is part of        *)
(* another or spans two pieces, so a name occurs in the text exactly when   *)
(* it is one of the pieces.                                                 *)

\* the keys of task_pool["task_types"] in the order of the file
SupportedTaskOrder ==
    <<"conversation_evaluation", "content_writing", "code_quality_evaluation",
      "tone_review", "style_review", "readability_review", "fact_check">>

\* TaskManager.get_supported_tasks(), as the list of its keys
get_supported_tasks(tp) ==
    SelectSeq(SupportedTaskOrder, LAMBDA t : t \in DOMAIN tp.task_types)

InList(x, list) == \E k \in 1..Len(list) : list[k] = x

\* set_default_task_type without the test of line 21
set_default_task_type_unchecked(tp, default, task) ==
    [ret |-> Ok(NoValue), _default_task_type |-> task]

\* TaskManager.set_default_task_type(task_type): what it returns and the
\* class attribute after it
set_default_task_type(tp, default, task) ==
    IF ~InList(task, get_supported_tasks(tp))
    THEN [ret |-> Raise("ValueError"), _default_task_type |-> default]
    ELSE [ret |-> Ok(NoValue), _default_task_type |-> task]

\* TaskManager.validate_task_type(task_type) for a task_type that is not None
validate_task_type(tp, default, task) ==
    IF ~InList(task, get_supported_tasks(tp)) THEN Raise("ValueError")
    ELSE Ok(task)

\* str.lower() of a piece
Lower(piece) ==
    CASE piece = "Fact_Check" -> "fact_check"
      [] piece = "STYLE_REVIEW" -> "style_review"
      [] piece = "The" -> "the"
      [] OTHER -> piece

\* response.strip().lower()
LowerText(text) == [k \in 1..Len(text) |-> Lower(text[k])]

\* a task type, where None is possible too
Found(task) == [task |-> task]

\* the first valid task that is in the text as it is, letter case included
RECURSIVE _parse_task_type_cased(_, _)
_parse_task_type_cased(resp, valid_tasks) ==
    IF ~resp.str THEN Raise("AttributeError")
    ELSE IF valid_tasks = <<>> THEN Ok(NoValue)
    ELSE IF InList(Head(valid_tasks), resp.text) THEN Ok(Found(Head(valid_tasks)))
    ELSE _parse_task_type_cased(resp, Tail(valid_tasks))

\* _parse_task_type(response, valid_tasks): a response that is not a str has
\* no strip()
RECURSIVE _parse_task_type(_, _)
_parse_task_type(resp, valid_tasks) ==
    IF ~resp.str THEN Raise("AttributeError")
    ELSE IF valid_tasks = <<>> THEN Ok(NoValue)
    ELSE IF InList(Lower(Head(valid_tasks)), LowerText(resp.text))
         THEN Ok(Found(Head(valid_tasks)))
    ELSE _parse_task_type(resp, Tail(valid_tasks))

\* lines 56-66, given what _parse_task_type did: None raises ValueError, and
\* every exception is answered with the default
ParsedOrDefault(task, default) ==
    IF IsExc(task) \/ IsNone(task.val) THEN Ok(default) ELSE Ok(task.val.task)

\* identify_task_type(content), given what generate_response did
identify_task_type(tp, default, judged) ==
    IF IsExc(judged) THEN Ok(default)
    ELSE ParsedOrDefault(_parse_task_type(judged.val, get_supported_tasks(tp)), default)

CandidateTasks == {"content_writing", "fact_check", "style_review", "essay_review", ""}

ResponsePieces == {"Fact_Check", "content_writing", "STYLE_REVIEW", "The", "essay_review"}

MaxPieces == 2

\* what generate_response does: it raises, or returns response.json(), a str
\* or not
JudgeAnswers ==
    {Raise("Exception"), Ok([str |-> FALSE])} \cup
    {Ok([str |-> TRUE, text |-> t]) :
        t \in UNION {[1..n -> ResponsePieces] : n \in 0..MaxPieces}}

InitTasks ==
    /\ task_pool = TaskPoolFile
    /\ metrics_pool = MetricsPoolFile
    /\ numpy_empty = "nan"
    /\ pc = [_default_task_type |-> "conversation_evaluation"]
    /\ response = NoValue
    /\ parsed = NoValue
    /\ ret = NoValue
    /\ task_type = ""
    /\ num_evaluations = 0
    /\ all_evaluations = <<>>
    /\ aggregated = NoValue
    /\ args = NoValue

TaskCall(call, outcome, judged) ==
    /\ parsed' = call
    /\ ret' = outcome.ret
    /\ pc' = [_default_task_type |-> outcome._default_task_type]
    /\ response' = judged
    /\ UNCHANGED <<task_pool, metrics_pool, numpy_empty, task_type, num_evaluations,
                   all_evaluations, aggregated, args>>

Unchanging(outcome) == [ret |-> outcome, _default_task_type |-> pc._default_task_type]

SetDefaultTaskType ==
    \E t \in CandidateTasks :
        TaskCall(Called("set_default_task_type", t),
                 set_default_task_type(task_pool, pc._default_task_type, t), response)

GetDefaultTaskType ==
    TaskCall(Called("get_default_task_type", ""),
             Unchanging(Ok(pc._default_task_type)), response)

\* validate_task_type(None), lines 95-96
ValidateNone ==
    TaskCall(Called("validate_task_type(None)", ""),
             Unchanging(Ok(pc._default_task_type)), response)

ValidateTaskType ==
    \E t \in CandidateTasks :
        TaskCall(Called("validate_task_type", t),
                 Unchanging(validate_task_type(task_pool, pc._default_task_type, t)),
                 response)

IdentifyTaskType ==
    \E judged \in JudgeAnswers :
        TaskCall(Called("identify_task_type", ""),
                 Unchanging(identify_task_type(task_pool, pc._default_task_type, judged)),
                 judged)

NextTasks ==
    \/ SetDefaultTaskType
    \/ GetDefaultTaskType
    \/ ValidateNone
    \/ ValidateTaskType
    \/ IdentifyTaskType

SpecTasks == InitTasks /\ [][NextTasks]_vars


-----------------------------------------------------------------------------
(* Claims about the default task type and the identification               *)

Supported(task) == task \in DOMAIN task_pool.task_types

\* C28: the default task type is always a supported one: setting a supported
\* task type makes it the default, setting an unsupported one raises and
\* leaves the default as it was, validate_task_type(None) returns the
\* current default and validate_task_type of an unsupported task type
\* raises.
C28_DefaultStaysSupported ==
    [][/\ Supported(pc'._default_task_type)
       /\ parsed'.call = "set_default_task_type" =>
            IF Supported(parsed'.key)
            THEN Returned(ret') /\ pc'._default_task_type = parsed'.key
            ELSE ret' = Raise("ValueError") /\ pc' = pc
       /\ parsed'.call = "validate_task_type(None)" =>
            ret' = Ok(pc._default_task_type) /\ pc' = pc
       /\ (parsed'.call = "validate_task_type" /\ ~Supported(parsed'.key)) =>
            ret' = Raise("ValueError") /\ pc' = pc]_vars

\* an unsupported task type was refused after the default had been changed
C28_Witness ==
    /\ "call" \in DOMAIN parsed
    /\ parsed = Called("set_default_task_type", "essay_review")
    /\ ret = Raise("ValueError")
    /\ pc._default_task_type = "fact_check"

\* the judge returned a text
Answered(judged) == Returned(judged) /\ judged.val.str

\* the names of supported tasks that occur in the lower-cased text
NamesIn(text) == {t \in DOMAIN task_pool.task_types : \E k \in 1..Len(text) : Lower(text[k]) = t}

PoolPosition(task) == CHOOSE k \in 1..Len(SupportedTaskOrder) : SupportedTaskOrder[k] = task

FirstInPool(names) ==
    CHOOSE t \in names : \A u \in names : PoolPosition(t) <= PoolPosition(u)

-----------------------------------------------------------------------------
(* Evaluator (src/evaluator/evaluator.py): construction and evaluate calls  *)
(* on one evaluator variable.  pc is the evaluator object, NoValue while    *)
(* there is none; an attribute holds NoValue while it is None or not set,   *)
(* task_type holds Found(name) otherwise.  args is the set of keys of       *)
(* config/evaluation_criteria.json, parsed the last call, ret its outcome.  *)

\* the truth value of a task type or a prompt: None and "" are false
Truthy(value) == ~IsNone(value) /\ value.task # ""

\* BaseEvaluator._load_evaluation_criteria: criteria[self.task_type]
_load_evaluation_criteria(criteria, task) ==
    IF IsNone(task) \/ task.task \notin criteria THEN Raise("KeyError") ELSE Ok(task)

\* self.weights = config_manager.get_task_weights(task); self.metrics = ...
WithWeights(self, weights) ==
    [self EXCEPT !.weights = weights, !.metrics = Ok(WeightKeys(weights.val))]

\* lines 25-27 on the object BaseEvaluator.__init__ made
SetWeights(self, tp) ==
    IF ~Truthy(self.task_type) THEN Ok(self)
    ELSE IF IsExc(get_task_weights({"task_pool"}, tp, self.task_type.task))
    THEN get_task_weights({"task_pool"}, tp, self.task_type.task)
    ELSE Ok(WithWeights(self, get_task_weights({"task_pool"}, tp, self.task_type.task)))

\* Evaluator(task_type, num_evaluations): the object, or the exception
Evaluator__init__(criteria, tp, task, n) ==
    IF IsExc(_load_evaluation_criteria(criteria, task))
    THEN _load_evaluation_criteria(criteria, task)
    ELSE SetWeights([task_type |-> task, num_evaluations |-> n,
                     weights |-> NoValue, metrics |-> NoValue], tp)

\* the default of lines 64-69: task_type is assigned before the lookup
Defaulted(self, tp) ==
    IF IsExc(get_task_weights({"task_pool"}, tp, "conversation_evaluation"))
    THEN [ret |-> get_task_weights({"task_pool"}, tp, "conversation_evaluation"),
          self |-> [self EXCEPT !.task_type = Found("conversation_evaluation")]]
    ELSE [ret |-> Ok(NoValue),
          self |-> WithWeights([self EXCEPT !.task_type = Found("conversation_evaluation")],
                               get_task_weights({"task_pool"}, tp, "conversation_evaluation"))]

\* a resolution made by every call, whatever task type the object has
ResolveTaskType_always(self, tp, prompt) ==
    IF Truthy(prompt) THEN [ret |-> Raise("AttributeError"), self |-> self]
    ELSE Defaulted(self, tp)

\* lines 57-69: task_identifier has no identify_task_from_prompt
ResolveTaskType(self, tp, prompt) ==
    IF ~Truthy(self.task_type) /\ Truthy(prompt)
    THEN [ret |-> Raise("AttributeError"), self |-> self]
    ELSE IF ~Truthy(self.task_type) THEN Defaulted(self, tp)
    ELSE [ret |-> Ok(NoValue), self |-> self]

\* lines 84-106 for the batch the loop collected
Result(self, aggregation) ==
    IF IsExc(aggregation.aggregated_scores) THEN aggregation.aggregated_scores
    ELSE IF IsExc(aggregation.confidence) THEN aggregation.confidence
    ELSE Ok([final_score |-> Round2(aggregation.aggregated_scores.val.total_weighted_score),
             confidence |-> aggregation.confidence.val[1],
             reliability |-> aggregation.confidence.val[2],
             weightages |-> self.weights,
             task_type |-> self.task_type])

\* lines 71-106: the first pass of the loop calls generate_prompt without its
\* criteria argument
FromLoop(self, tp, mp, np_empty) ==
    IF self.num_evaluations >= 1 THEN Raise("TypeError")
    ELSE Result(self, Aggregation(tp, mp, <<>>, self.task_type.task, np_empty))

\* evaluate(content, prompt): what it returns and the object after it
AfterResolution(resolved, tp, mp, np_empty) ==
    IF IsExc(resolved.ret) THEN resolved
    ELSE [ret |-> FromLoop(resolved.self, tp, mp, np_empty), self |-> resolved.self]

evaluate(self, tp, mp, prompt, np_empty) ==
    AfterResolution(ResolveTaskType(self, tp, prompt), tp, mp, np_empty)

\* the keys of evaluation_criteria.json
CriteriaFiles ==
    {{"conversation_evaluation", "content_writing", "fact_check", "essay_review"},
     {"", "conversation_evaluation", "content_writing", "fact_check", "essay_review"}}

ConstructorTasks ==
    {NoValue, Found(""), Found("conversation_evaluation"), Found("content_writing"),
     Found("fact_check"), Found("essay_review"), Found("style_review")}

Prompts == {NoValue, Found(""), Found("Write an essay")}

MaxNumEvaluations == 1

InitEvaluator ==
    /\ PoolsLoaded
    /\ args \in CriteriaFiles
    /\ pc = NoValue
    /\ parsed = NoValue
    /\ ret = NoValue
    /\ task_type = ""
    /\ num_evaluations = 0
    /\ all_evaluations = <<>>
    /\ aggregated = NoValue
    /\ response = <<>>

EvaluatorCall(name, argument) == [call |-> name, argument |-> argument]

\* evaluator = Evaluator(task_type, num_evaluations); the variable keeps the
\* object it had when the constructor raises
ConstructEvaluator ==
    \E task \in ConstructorTasks, n \in 0..MaxNumEvaluations :
        /\ parsed' = EvaluatorCall("Evaluator", task)
        /\ ret' = Evaluator__init__(args, task_pool, task, n)
        /\ pc' = IF IsExc(ret') THEN pc ELSE ret'.val
        /\ UNCHANGED <<task_pool, metrics_pool, numpy_empty, task_type, num_evaluations,
                       all_evaluations, aggregated, response, args>>

\* evaluator.evaluate(content, prompt)
Evaluate ==
    \E prompt \in Prompts :
        /\ ~IsNone(pc)
        /\ parsed' = EvaluatorCall("evaluate", prompt)
        /\ ret' = evaluate(pc, task_pool, metrics_pool, prompt, numpy_empty).ret
        /\ pc' = evaluate(pc, task_pool, metrics_pool, prompt, numpy_empty).self
        /\ UNCHANGED <<task_pool, metrics_pool, numpy_empty, task_type, num_evaluations,
                       all_evaluations, aggregated, response, args>>

NextEvaluator == ConstructEvaluator \/ Evaluate

SpecEvaluator == InitEvaluator /\ [][NextEvaluator]_vars

\* the weights and the metric list of the object are the ones the pool
\* defines for its task type
Configured(self) ==
    /\ Supported(self.task_type.task)
    /\ self.weights = Ok(task_pool.task_types[self.task_type.task].weightages)
    /\ self.metrics =
         Ok([k \in 1..Len(task_pool.task_types[self.task_type.task].weightages) |->
                task_pool.task_types[self.task_type.task].weightages[k].metric])

\* C27: an evaluator that has a task type has the weights and the metric
\* list configured for it; evaluate leaves a task type the evaluator already
\* has as it is, whatever the prompt, and without one and without a prompt
\* it sets conversation_evaluation.
C27_TaskTypeIsStable ==
    [][~IsNone(pc') =>
          /\ Truthy(pc'.task_type) => Configured(pc')
          /\ (parsed'.call = "evaluate" /\ Truthy(pc.task_type)) =>
                pc'.task_type = pc.task_type
          /\ (/\ parsed'.call = "evaluate"
              /\ ~Truthy(pc.task_type)
              /\ ~Truthy(parsed'.argument)) =>
                pc'.task_type = Found("conversation_evaluation")]_vars

\* an evaluator of content_writing was asked to evaluate with a prompt and
\* kept its task type and its weights
C27_Witness ==
    /\ ~IsNone(pc)
    /\ "call" \in DOMAIN parsed
    /\ parsed = EvaluatorCall("evaluate", Found("Write an essay"))
    /\ pc.task_type = Found("content_writing")
    /\ Configured(pc)


-----------------------------------------------------------------------------
(* Concurrent evaluations.  Two requests evaluate at the same time, each    *)
(* on its own Evaluator and all on the one loaded store; every judge call   *)
(* with its parse, the aggregation of a request and a call of               *)
(* TaskManager.set_default_task_type are steps that interleave freely.      *)
(* pc, task_type, num_evaluations, response, all_evaluations and ret are    *)
(* functions of the request here; args is the class TaskManager.  As in     *)
(* the sequential model the prompt is taken as given.                       *)

Requests == {"first", "second"}

ConcurrentTasks == {"content_writing", "fact_check"}

\* the texts the judge answers with
ConcurrentTexts(task) ==
    IF task = "content_writing"
    THEN {<<ScoreLine("accuracy", v), ScoreLine("brevity", 2)>> : v \in {8, 10}}
    ELSE {<<ScoreLine("factual_accuracy", v), ScoreLine("accuracy", 9)>> : v \in {5, 10}}

\* an aggregation that drops the last metric of the rubric it used
StoreAfterEvaluation_trimmed(tp, task) ==
    [tp EXCEPT !.task_types[task].weightages =
                   SubSeq(@, 1, Len(@) - 1)]

\* the task pool after an evaluation of the task: evaluate, the parser and
\* the aggregator only read it
StoreAfterEvaluation(tp, task) == tp

InitConcurrent ==
    /\ task_pool = TaskPoolFile
    /\ metrics_pool = MetricsPoolFile
    /\ numpy_empty = "nan"
    /\ pc = [r \in Requests |-> "sampling"]
    /\ task_type \in [Requests -> ConcurrentTasks]
    /\ num_evaluations \in [Requests -> 1..2]
    /\ all_evaluations = [r \in Requests |-> <<>>]
    /\ response = [r \in Requests |-> <<>>]
    /\ ret = [r \in Requests |-> NoValue]
    /\ aggregated = NoValue
    /\ parsed = NoValue
    /\ args = [_default_task_type |-> "conversation_evaluation"]

\* one pass of the loop of a request whose judge call returns
ConcurrentSample(r) ==
    /\ pc[r] = "sampling"
    /\ Len(all_evaluations[r]) < num_evaluations[r]
    /\ \E lines \in ConcurrentTexts(task_type[r]) :
          /\ response' = [response EXCEPT ![r] = Append(@, TextResponse(lines))]
          /\ IF IsExc(parse_evaluation_response(task_pool, metrics_pool,
                                                TextResponse(lines), task_type[r], TRUE))
             THEN /\ pc' = [pc EXCEPT ![r] = "failed"]
                  /\ ret' = [ret EXCEPT ![r] =
                                parse_evaluation_response(task_pool, metrics_pool,
                                    TextResponse(lines), task_type[r], TRUE)]
                  /\ UNCHANGED all_evaluations
             ELSE /\ all_evaluations' =
                        [all_evaluations EXCEPT ![r] =
                            Append(@, parse_evaluation_response(task_pool, metrics_pool,
                                          TextResponse(lines), task_type[r], TRUE).val)]
                  /\ UNCHANGED <<pc, ret>>
    /\ UNCHANGED <<task_pool, metrics_pool, numpy_empty, task_type, num_evaluations,
                   aggregated, parsed, args>>

\* one pass of the loop of a request whose judge call raises
ConcurrentJudgeFails(r) ==
    /\ pc[r] = "sampling"
    /\ Len(all_evaluations[r]) < num_evaluations[r]
    /\ pc' = [pc EXCEPT ![r] = "failed"]
    /\ ret' = [ret EXCEPT ![r] = Raise("Exception")]
    /\ UNCHANGED <<task_pool, metrics_pool, numpy_empty, task_type, num_evaluations,
                   all_evaluations, aggregated, response, parsed, args>>

Outcome(aggregation) ==
    IF IsExc(aggregation.aggregated_scores) THEN aggregation.aggregated_scores
    ELSE IF IsExc(aggregation.confidence) THEN aggregation.confidence
    ELSE Ok(aggregation)

\* lines 84-106 of a request whose loop has ended
ConcurrentAggregate(r) ==
    /\ pc[r] = "sampling"
    /\ Len(all_evaluations[r]) = num_evaluations[r]
    /\ ret' = [ret EXCEPT ![r] =
                  Outcome(Aggregation(task_pool, metrics_pool, all_evaluations[r],
                                      task_type[r], numpy_empty))]
    /\ pc' = [pc EXCEPT ![r] = IF IsExc(ret'[r]) THEN "failed" ELSE "done"]
    /\ task_pool' = StoreAfterEvaluation(task_pool, task_type[r])
    /\ UNCHANGED <<metrics_pool, numpy_empty, task_type, num_evaluations, all_evaluations,
                   aggregated, response, parsed, args>>

\* TaskManager.set_default_task_type(task) called meanwhile
ConcurrentSetDefault ==
    \E task \in {"fact_check", "essay_review"} :
        /\ args' = [_default_task_type |->
                       set_default_task_type(task_pool, args._default_task_type,
                                             task)._default_task_type]
        /\ args' # args
        /\ UNCHANGED <<task_pool, metrics_pool, numpy_empty, pc, task_type, num_evaluations,
                       all_evaluations, aggregated, response, parsed, ret>>

NextConcurrent ==
    \/ \E r \in Requests : ConcurrentSample(r)
    \/ \E r \in Requests : ConcurrentJudgeFails(r)
    \/ \E r \in Requests : ConcurrentAggregate(r)
    \/ ConcurrentSetDefault

SpecConcurrent == InitConcurrent /\ [][NextConcurrent]_vars

\* what a request alone gets from the loaded definitions for the responses
\* the judge gave it
AloneSamples(r) ==
    [k \in 1..Len(all_evaluations[r]) |->
        parse_evaluation_response(TaskPoolFile, MetricsPoolFile, response[r][k],
                                  task_type[r], TRUE).val]

AloneResult(r) ==
    Ok(Aggregation(TaskPoolFile, MetricsPoolFile, AloneSamples(r), task_type[r], "nan"))

=============================================================================
